---- MODULE Spec2Model ----
(***************************************************************************)
(* BratenDreher: inter-task coordination layer of the rotisserie stepper   *)
(* firmware.  Four FreeRTOS queues (SystemCommand: commandQueue and        *)
(* pdCommandQueue; SystemStatus: statusUpdateQueue and notificationQueue), *)
(* the stepper task's command handlers and the USB-PD negotiation task.    *)
(*                                                                         *)
(* Computation is instantaneous; time (millis()) passes only where a task  *)
(* blocks (vTaskDelay, xQueueReceive with a timeout).                      *)
(***************************************************************************)
EXTENDS Integers, Sequences, FiniteSets, TLC

(***************************************************************************)
(* Program constants                                                       *)
(***************************************************************************)
COMMAND_QUEUE_SIZE == 20
PD_COMMAND_QUEUE_SIZE == 10
NOTIFICATION_QUEUE_SIZE == 10
STATUS_UPDATE_QUEUE_SIZE == 30

PD_VOLTAGE_5V == 5
PD_VOLTAGE_9V == 9
PD_VOLTAGE_12V == 12
PD_VOLTAGE_15V == 15
PD_VOLTAGE_20V == 20

PD_STATUS_UPDATE_INTERVAL == 500
\* StepperController.h: periods of the status update and of the speed update of run()
STATUS_UPDATE_INTERVAL == 500
MOTOR_SPEED_UPDATE_INTERVAL == 50
PD_NEGOTIATION_TIMEOUT == 2000
PD_POWER_GOOD_DEBOUNCE == 100

\* autoNegotiationVoltages[5], highest first (the C array is 0-based)
autoNegotiationVoltages == <<PD_VOLTAGE_20V, PD_VOLTAGE_15V, PD_VOLTAGE_12V, PD_VOLTAGE_9V, PD_VOLTAGE_5V>>

\* StepperController.h: motor specifications
STEPS_PER_REVOLUTION == 200
GEAR_RATIO == 10
MICRO_STEPS == 16
\* Floats are fixed-point numbers.  Speeds are counted in units of 1/RPM of a
\* revolution per minute, chosen so that rpmToStepsPerSecond and its inverse in
\* applyStepperSpeed are exact integer operations: 1 RPM is 1600/3 steps per second.
RPM == (GEAR_RATIO * STEPS_PER_REVOLUTION * MICRO_STEPS) \div 20
\* 0.1f and 30.0f
MIN_SPEED_RPM == RPM \div 10
MAX_SPEED_RPM == 30 * RPM
\* strengths, k and k0 are counted in thousandths, angles in milliradians
ONE == 1000
TWO_PI == 6283

(***************************************************************************)
(* Bounds of the model                                                     *)
(***************************************************************************)
\* stamped items a producer may get accepted into one traced queue
MaxAccepted == 32
\* emergencyStop() calls in one behaviour of the channel specification
MaxEstops == 1
\* commands the gateway issues to the power task in one behaviour
MaxPDCmds == 1
\* commands the gateway issues to the stepper task in one behaviour
MaxMotorCmds == 4
\* commands the gateway queues for each task in one behaviour under fair scheduling
MaxTaskCmds == 2
\* the stepper position stays within -MaxPosition .. MaxPosition
MaxPosition == 1
\* delays of the power task during which millis() advances; it stands still afterwards
MaxPDLoops == 6
\* level changes of the PG pin in one behaviour
MaxPGToggles == 2
\* millis() stops advancing here in the stepper task specification
MotorMaxTime == 2
\* commands the gateway issues to the stepper task in one behaviour of the settings
\* specification
MaxTuningCmds == 4
\* angles of one revolution at which the modulated speed is sampled
AngleSamples == 16
\* the DIAG pin rises while fewer stalls than this are counted
MaxStalls == 2
\* commands the gateway sends in the stall-check specification
MaxStallCmds == 3
\* millis() stops advancing this long after the first state of the timing specification
ClockMaxTime == 700
\* commands the gateway sends in the timing specification
MaxClockCmds == 1

VARIABLES
    \* SystemCommand / SystemStatus queues (front of the queue = index 1)
    commandQueue, pdCommandQueue, statusUpdateQueue, notificationQueue,
    \* the gateway's xQueueSend that is blocked on a full queue, or NoSend
    gwSend,
    \* return value of the last completed send per caller
    sendResult,
    \* instrumentation: queues whose items are stamped, stamps handed out, stamps delivered
    traced, accepted, delivered,
    \* instrumentation: emergencyStop() calls made
    estopCalls,
    \* millis()
    now,
    \* StepperController state
    motorEnabled, clockwise, isFirstStart, startTime, totalSteps,
    \* hardware behind the stepper task: TMC2209 enable; FastAccelStepper motion,
    \* position and configured speed/acceleration; the "stepper" preferences namespace
    driverEnabled, stepperMove, stepperPosition, stepperConfig, preferences,
    \* StepperController settings: speed setpoint, run current, acceleration
    currentSpeedRPM, runCurrent, currentAcceleration,
    \* speed variation
    speedVariationEnabled, speedVariationStrength, speedVariationPhase,
    speedVariationStartPosition, speedVariationK, speedVariationK0,
    \* TMC2209: communication status as last seen by the task, the driver's run current
    \* register; stall detection
    tmc2209Initialized, driverRunCurrent, stallDetected, lastStallTime, stallCount,
    \* the TMC2209 answers on its serial line (stepperDriver.isSetupAndCommunicating())
    driverCommunicating,
    \* the DIAG pin of the TMC2209 is high (digitalRead(DIAG_PIN)); instrumentation: it
    \* has risen since publishPeriodicStatusUpdates last read it
    diagPin, diagRose,
    \* run(): millis() is the 32-bit value clockBase + now; the next-due times of its two
    \* periodic updates; instrumentation: when each update was last performed, and for
    \* each update the last round of the loop performed how long after the previous one
    clockBase, nextSpeedUpdate, nextPeriodicUpdate, lastStatusAt, lastSpeedAt, roundUpdates,
    \* instrumentation: stamps of the commands each task has handled, in order, and the
    \* kinds of the last three commands the stepper task has handled
    handledByMotor, handledByPD, motorTrace,
    \* PowerDeliveryTask state
    pdPc, isInitialized, targetVoltage, negotiatedVoltage,
    powerGoodState, lastPowerGoodState, powerGoodDebounceTime,
    negotiationState, negotiationStartTime,
    isAutoNegotiating, autoNegotiationVoltageIndex, autoNegotiationHighestVoltage,
    lastStatusUpdate,
    \* CFG1..CFG3 pin levels
    cfgPins,
    \* instrumentation: millis() of the last CFG pin write, voltages configured by the
    \* running auto-negotiation, last pdCheckPowerGood() reading and result
    cfgChangeTime, autoTried, pgAssertedSince,
    \* the PG pin is asserted (digitalRead(PG_PIN) == LOW); instrumentation: its changes
    pgPin, pgToggles,
    \* instrumentation: vTaskDelay calls of the power task that let time pass
    pdLoops

queueVars == <<commandQueue, pdCommandQueue, statusUpdateQueue, notificationQueue>>
sendVars == <<gwSend, sendResult, estopCalls>>
traceVars == <<traced, accepted, delivered>>
settingVars == <<currentSpeedRPM, runCurrent, currentAcceleration, speedVariationEnabled,
                 speedVariationStrength, speedVariationPhase, speedVariationStartPosition,
                 speedVariationK, speedVariationK0, tmc2209Initialized, driverRunCurrent,
                 stallDetected, lastStallTime, stallCount>>
clockVars == <<clockBase, nextSpeedUpdate, nextPeriodicUpdate, lastStatusAt, lastSpeedAt,
              roundUpdates>>
runVars == <<diagPin, diagRose, clockVars>>
motorVars == <<motorEnabled, clockwise, isFirstStart, startTime, totalSteps, driverEnabled,
              stepperMove, stepperPosition, stepperConfig, preferences, settingVars,
              driverCommunicating, runVars>>
handledVars == <<handledByMotor, handledByPD, motorTrace>>
pdVars == <<pdPc, isInitialized, targetVoltage, negotiatedVoltage, powerGoodState,
            lastPowerGoodState, powerGoodDebounceTime, negotiationState,
            negotiationStartTime, isAutoNegotiating, autoNegotiationVoltageIndex,
            autoNegotiationHighestVoltage, lastStatusUpdate, cfgPins,
            cfgChangeTime, autoTried, pgAssertedSince, pgPin, pgToggles, pdLoops>>
vars == <<queueVars, sendVars, traceVars, now, motorVars, handledVars, pdVars>>

QueueNames == {"command", "pd", "status", "notification"}
Max(a, b) == IF a >= b THEN a ELSE b

\* uint32_t / unsigned long (32 bits on the ESP32): a value is the pair <<high, low>> of
\* its 16-bit halves, and the arithmetic is that of C on unsigned operands, modulo 2^32
Half == 2^16
U32(n) == <<(n \div Half) % Half, n % Half>>
U32Add(a, b) ==
    LET low == a[2] + b[2]
    IN  <<(a[1] + b[1] + low \div Half) % Half, low % Half>>
U32Sub(a, b) ==
    LET borrow == IF a[2] < b[2] THEN 1 ELSE 0
    IN  <<(a[1] - b[1] - borrow) % Half, (a[2] - b[2]) % Half>>
U32Less(a, b) == a[1] < b[1] \/ (a[1] = b[1] /\ a[2] < b[2])
U32Min(a, b) == IF U32Less(b, a) THEN b ELSE a
NoSend == [q |-> "none"]

(***************************************************************************)
(* FreeRTOS queue primitives as the sources use them                       *)
(***************************************************************************)
\* xQueueSend copies the item to the back of the queue
xQueueSendToFront(queue, item) == <<item>> \o queue
xQueueSendToBack(queue, item) == Append(queue, item)

\* xQueueSend finds a free slot
xQueueNeverFull(queue, size) == TRUE
xQueueHasSpace(queue, size) == Len(queue) < size

xQueueSendEvicting(queue, size, item) ==
    Append(IF xQueueHasSpace(queue, size) THEN queue ELSE Tail(queue), item)
\* the queue after xQueueSend(queue, &item, 0): unchanged when it is full
xQueueSend(queue, size, item) ==
    IF xQueueHasSpace(queue, size) THEN xQueueSendToBack(queue, item) ELSE queue

\* xQueueReceive copies out the item at the front ...
xQueueFront(queue) == Head(queue)

\* ... and removes it
xQueueKeepFront(queue) == queue
xQueueRemoveFront(queue) == Tail(queue)

\* several xQueueSend(queue, &item, 0) in a row
RECURSIVE xQueueSendAll(_, _, _)
xQueueSendAll(queue, size, items) ==
    IF items = <<>> THEN queue
    ELSE xQueueSendAll(xQueueSend(queue, size, Head(items)), size, Tail(items))

\* instrumentation: the stamp of the next item accepted into queue q (0: q is not traced)
Stamp(q) == IF q \in traced THEN accepted[q] + 1 ELSE 0
CountAccepted(q) == IF q \in traced THEN [accepted EXCEPT ![q] = @ + 1] ELSE accepted
LogDelivered(q, item) == IF q \in traced THEN [delivered EXCEPT ![q] = Append(@, item.seq)] ELSE delivered

(***************************************************************************)
(* SystemCommand: the command channel                                      *)
(***************************************************************************)
\* the enqueueing functions of StepperController leave cmd.commandId unassigned: it
\* holds whatever the stack held
CommandIds == {0, 1}
StepperCommandData(cmd, value, commandId) ==
    [command |-> cmd, value |-> value, commandId |-> commandId, seq |-> Stamp("command")]
PowerDeliveryCommandData(cmd, value) == [command |-> cmd, value |-> value, seq |-> Stamp("pd")]

\* SystemCommand::sendCommand(command, pdMS_TO_TICKS(10)): xQueueSend succeeds at once
\* when a slot is free, else the caller blocks on the full queue
sendCommand(command) ==
    /\ gwSend = NoSend
    /\ IF xQueueHasSpace(commandQueue, COMMAND_QUEUE_SIZE)
       THEN /\ commandQueue' = xQueueSendToBack(commandQueue, command)
            /\ accepted' = CountAccepted("command")
            /\ sendResult' = [sendResult EXCEPT !.gateway = TRUE]
            /\ UNCHANGED gwSend
       ELSE /\ gwSend' = [q |-> "command", item |-> command]
            /\ UNCHANGED <<commandQueue, accepted, sendResult>>
    /\ UNCHANGED <<pdCommandQueue, statusUpdateQueue, notificationQueue, estopCalls,
                   traced, delivered, now, motorVars, handledVars, pdVars>>

\* the blocked xQueueSend of sendCommand is woken by a slot coming free
sendCommandUnblocked ==
    /\ gwSend.q = "command"
    /\ xQueueHasSpace(commandQueue, COMMAND_QUEUE_SIZE)
    /\ commandQueue' = xQueueSendToBack(commandQueue, [gwSend.item EXCEPT !.seq = Stamp("command")])
    /\ accepted' = CountAccepted("command")
    /\ sendResult' = [sendResult EXCEPT !.gateway = TRUE]
    /\ gwSend' = NoSend
    /\ UNCHANGED <<pdCommandQueue, statusUpdateQueue, notificationQueue, estopCalls,
                   traced, delivered, now, motorVars, handledVars, pdVars>>

\* the timeout of the blocked xQueueSend elapses with the queue still full: errQUEUE_FULL
sendCommandTimeout ==
    /\ gwSend.q = "command"
    /\ ~xQueueHasSpace(commandQueue, COMMAND_QUEUE_SIZE)
    /\ sendResult' = [sendResult EXCEPT !.gateway = FALSE]
    /\ gwSend' = NoSend
    /\ UNCHANGED <<queueVars, estopCalls, traceVars, now, motorVars, handledVars, pdVars>>

\* SystemCommand::emergencyStop / StepperController::emergencyStop:
\* xQueueSend(commandQueue, &emergencyCmd, 0), callable while the gateway is blocked
emergencyStop ==
    /\ \E commandId \in CommandIds :
         commandQueue' = xQueueSend(commandQueue, COMMAND_QUEUE_SIZE,
                                    StepperCommandData("EMERGENCY_STOP", 0, commandId))
    /\ accepted' = IF xQueueHasSpace(commandQueue, COMMAND_QUEUE_SIZE)
                   THEN CountAccepted("command") ELSE accepted
    /\ sendResult' = [sendResult EXCEPT !.estop = xQueueHasSpace(commandQueue, COMMAND_QUEUE_SIZE)]
    /\ estopCalls' = estopCalls + 1
    /\ UNCHANGED <<pdCommandQueue, statusUpdateQueue, notificationQueue, gwSend,
                   traced, delivered, now, motorVars, handledVars, pdVars>>

\* SystemCommand::sendPowerDeliveryCommand(command, pdMS_TO_TICKS(10))
sendPowerDeliveryCommand(command) ==
    /\ gwSend = NoSend
    /\ IF xQueueHasSpace(pdCommandQueue, PD_COMMAND_QUEUE_SIZE)
       THEN /\ pdCommandQueue' = xQueueSendToBack(pdCommandQueue, command)
            /\ accepted' = CountAccepted("pd")
            /\ sendResult' = [sendResult EXCEPT !.gateway = TRUE]
            /\ UNCHANGED gwSend
       ELSE /\ gwSend' = [q |-> "pd", item |-> command]
            /\ UNCHANGED <<pdCommandQueue, accepted, sendResult>>
    /\ UNCHANGED <<commandQueue, statusUpdateQueue, notificationQueue, estopCalls,
                   traced, delivered, now, motorVars, handledVars, pdVars>>

sendPowerDeliveryCommandUnblocked ==
    /\ gwSend.q = "pd"
    /\ xQueueHasSpace(pdCommandQueue, PD_COMMAND_QUEUE_SIZE)
    /\ pdCommandQueue' = xQueueSendToBack(pdCommandQueue, [gwSend.item EXCEPT !.seq = Stamp("pd")])
    /\ accepted' = CountAccepted("pd")
    /\ sendResult' = [sendResult EXCEPT !.gateway = TRUE]
    /\ gwSend' = NoSend
    /\ UNCHANGED <<commandQueue, statusUpdateQueue, notificationQueue, estopCalls,
                   traced, delivered, now, motorVars, handledVars, pdVars>>

sendPowerDeliveryCommandTimeout ==
    /\ gwSend.q = "pd"
    /\ ~xQueueHasSpace(pdCommandQueue, PD_COMMAND_QUEUE_SIZE)
    /\ sendResult' = [sendResult EXCEPT !.gateway = FALSE]
    /\ gwSend' = NoSend
    /\ UNCHANGED <<queueVars, estopCalls, traceVars, now, motorVars, handledVars, pdVars>>

\* SystemCommand::getCommand with a command waiting (the consumer of the channel API)
getCommand ==
    /\ commandQueue # <<>>
    /\ delivered' = LogDelivered("command", xQueueFront(commandQueue))
    /\ commandQueue' = xQueueRemoveFront(commandQueue)
    /\ UNCHANGED <<pdCommandQueue, statusUpdateQueue, notificationQueue, sendVars,
                   traced, accepted, now, motorVars, handledVars, pdVars>>

\* SystemCommand::getPowerDeliveryCommand with a command waiting
getPowerDeliveryCommand ==
    /\ pdCommandQueue # <<>>
    /\ delivered' = LogDelivered("pd", xQueueFront(pdCommandQueue))
    /\ pdCommandQueue' = xQueueRemoveFront(pdCommandQueue)
    /\ UNCHANGED <<commandQueue, statusUpdateQueue, notificationQueue, sendVars,
                   traced, accepted, now, motorVars, handledVars, pdVars>>

(***************************************************************************)
(* SystemStatus: the status channel                                        *)
(***************************************************************************)
StatusUpdateData(type, value) == [type |-> type, value |-> value, seq |-> Stamp("status")]
NotificationData(type, message) == [type |-> type, message |-> message, seq |-> Stamp("notification")]

\* SystemStatus::publishStatusUpdate(type, value): xQueueSend(.., 0), dropped when full
publishStatusUpdate(type, value) ==
    /\ statusUpdateQueue' = xQueueSend(statusUpdateQueue, STATUS_UPDATE_QUEUE_SIZE,
                                       StatusUpdateData(type, value))
    /\ accepted' = IF xQueueHasSpace(statusUpdateQueue, STATUS_UPDATE_QUEUE_SIZE)
                   THEN CountAccepted("status") ELSE accepted
    /\ UNCHANGED <<commandQueue, pdCommandQueue, notificationQueue, sendVars,
                   traced, delivered, now, motorVars, handledVars, pdVars>>

sendNotificationSharedPool(type, message) ==
    /\ notificationQueue' =
           IF xQueueHasSpace(statusUpdateQueue, STATUS_UPDATE_QUEUE_SIZE)
           THEN xQueueSend(notificationQueue, NOTIFICATION_QUEUE_SIZE,
                           NotificationData(type, message))
           ELSE notificationQueue
    /\ accepted' = IF /\ xQueueHasSpace(statusUpdateQueue, STATUS_UPDATE_QUEUE_SIZE)
                      /\ xQueueHasSpace(notificationQueue, NOTIFICATION_QUEUE_SIZE)
                   THEN CountAccepted("notification") ELSE accepted
    /\ UNCHANGED <<commandQueue, pdCommandQueue, statusUpdateQueue, sendVars,
                   traced, delivered, now, motorVars, handledVars, pdVars>>

\* SystemStatus::sendNotification(type, message): xQueueSend(.., 0), dropped when full
sendNotification(type, message) ==
    /\ notificationQueue' = xQueueSend(notificationQueue, NOTIFICATION_QUEUE_SIZE,
                                       NotificationData(type, message))
    /\ accepted' = IF xQueueHasSpace(notificationQueue, NOTIFICATION_QUEUE_SIZE)
                   THEN CountAccepted("notification") ELSE accepted
    /\ UNCHANGED <<commandQueue, pdCommandQueue, statusUpdateQueue, sendVars,
                   traced, delivered, now, motorVars, handledVars, pdVars>>

\* SystemStatus::getStatusUpdate with an update waiting
getStatusUpdate ==
    /\ statusUpdateQueue # <<>>
    /\ delivered' = LogDelivered("status", xQueueFront(statusUpdateQueue))
    /\ statusUpdateQueue' = xQueueRemoveFront(statusUpdateQueue)
    /\ UNCHANGED <<commandQueue, pdCommandQueue, notificationQueue, sendVars,
                   traced, accepted, now, motorVars, handledVars, pdVars>>

\* SystemStatus::getNotification with a notification waiting
getNotification ==
    /\ notificationQueue # <<>>
    /\ delivered' = LogDelivered("notification", xQueueFront(notificationQueue))
    /\ notificationQueue' = xQueueRemoveFront(notificationQueue)
    /\ UNCHANGED <<commandQueue, pdCommandQueue, statusUpdateQueue, sendVars,
                   traced, accepted, now, motorVars, handledVars, pdVars>>

(***************************************************************************)
(* StepperController: the command handlers of the stepper task             *)
(***************************************************************************)
\* the controller's members and the hardware behind it as one record, so that calls
\* compose; pub and notes are what the running handler has published so far
MotorState ==
    [motorEnabled |-> motorEnabled, clockwise |-> clockwise, isFirstStart |-> isFirstStart,
     startTime |-> startTime, totalSteps |-> totalSteps, driverEnabled |-> driverEnabled,
     stepperMove |-> stepperMove, stepperPosition |-> stepperPosition,
     stepperConfig |-> stepperConfig, preferences |-> preferences,
     currentSpeedRPM |-> currentSpeedRPM, runCurrent |-> runCurrent,
     currentAcceleration |-> currentAcceleration,
     speedVariationEnabled |-> speedVariationEnabled,
     speedVariationStrength |-> speedVariationStrength,
     speedVariationPhase |-> speedVariationPhase,
     speedVariationStartPosition |-> speedVariationStartPosition,
     speedVariationK |-> speedVariationK, speedVariationK0 |-> speedVariationK0,
     tmc2209Initialized |-> tmc2209Initialized, driverRunCurrent |-> driverRunCurrent,
     stallDetected |-> stallDetected, lastStallTime |-> lastStallTime,
     stallCount |-> stallCount,
     pub |-> <<>>, notes |-> <<>>]

\* StepperController::publishStatusUpdate and StepperController::sendNotification
MotorPublish(M, type, value) == [M EXCEPT !.pub = Append(@, StatusUpdateData(type, value))]
MotorNotify(M, commandId, type, message) ==
    [M EXCEPT !.notes = Append(@, [commandId |-> commandId, type |-> type,
                                   message |-> message, seq |-> Stamp("notification")])]

\* FastAccelStepper as the controller calls it: a run is refused while the speed or
\* the acceleration is not set
MoveResultCode(M) ==
    IF M.stepperConfig.speedInHz = 0 THEN "MOVE_ERR_SPEED_IS_UNDEFINED"
    ELSE IF M.stepperConfig.acceleration = 0 THEN "MOVE_ERR_ACCELERATION_IS_UNDEFINED"
    ELSE "MOVE_OK"
runForward(M) ==
    IF MoveResultCode(M) = "MOVE_OK" THEN [M EXCEPT !.stepperMove = "forward"] ELSE M
runBackward(M) ==
    IF MoveResultCode(M) = "MOVE_OK" THEN [M EXCEPT !.stepperMove = "backward"] ELSE M
\* stopMove: decelerate to a stop
stopMove(M) ==
    [M EXCEPT !.stepperMove = IF @ \in {"forward", "backward"} THEN "ramp_stop" ELSE @]
\* forceStopAndNewPosition: stop at once, no ramp
forceStopAndNewPosition(M, position) ==
    [M EXCEPT !.stepperMove = "force_stop", !.stepperPosition = position]
setCurrentPosition(M, position) == [M EXCEPT !.stepperPosition = position]

\* saveSettings: the keys "speed", "clockwise", "current" and "acceleration"
saveSettings(M) ==
    [M EXCEPT !.preferences = [speed |-> M.currentSpeedRPM, clockwise |-> M.clockwise,
                               current |-> M.runCurrent,
                               acceleration |-> M.currentAcceleration]]

resetCountersInternal(M, commandId) ==
    [setCurrentPosition(M, 0) EXCEPT !.totalSteps = 0, !.startTime = now,
                                     !.isFirstStart = FALSE]

setDirectionInternal(M, cw, commandId) ==
    LET M1 == [M EXCEPT !.clockwise = cw]
        M2 == IF commandId # 0 THEN saveSettings(M1) ELSE M1
    IN  MotorPublish(M2, "DIRECTION_CHANGED", cw)

enableInternalRecaptures(M, commandId) ==
    LET M1 == [M EXCEPT !.motorEnabled = TRUE, !.driverEnabled = TRUE]
        M2 == IF M1.clockwise THEN runForward(M1) ELSE runBackward(M1)
    IN  MotorPublish([M2 EXCEPT !.startTime = now, !.isFirstStart = FALSE],
                     "ENABLED_CHANGED", TRUE)
enableInternal(M, commandId) ==
    LET M1 == [M EXCEPT !.motorEnabled = TRUE, !.driverEnabled = TRUE]
        M2 == IF M1.clockwise THEN runForward(M1) ELSE runBackward(M1)
    IN  IF MoveResultCode(M1) # "MOVE_OK"
        THEN MotorNotify(MotorPublish([M2 EXCEPT !.motorEnabled = FALSE,
                                                 !.driverEnabled = FALSE],
                                      "ENABLED_CHANGED", FALSE),
                         commandId, "ERROR",
                         <<"Failed to start stepper movement (result code: ",
                           MoveResultCode(M1), ")">>)
        ELSE MotorPublish(IF M2.isFirstStart
                          THEN [M2 EXCEPT !.startTime = now, !.isFirstStart = FALSE]
                          ELSE M2,
                          "ENABLED_CHANGED", TRUE)

disableInternalRejectsRepeat(M, commandId) ==
    IF ~M.motorEnabled
    THEN MotorNotify(MotorPublish(M, "ENABLED_CHANGED", FALSE),
                     commandId, "ERROR", <<"Motor already disabled">>)
    ELSE MotorPublish([stopMove([M EXCEPT !.motorEnabled = FALSE])
                          EXCEPT !.driverEnabled = FALSE],
                      "ENABLED_CHANGED", FALSE)
disableInternal(M, commandId) ==
    MotorPublish([stopMove([M EXCEPT !.motorEnabled = FALSE]) EXCEPT !.driverEnabled = FALSE],
                 "ENABLED_CHANGED", FALSE)

emergencyStopInternalKeepsDriver(M, commandId) ==
    MotorPublish(forceStopAndNewPosition([M EXCEPT !.motorEnabled = FALSE], M.stepperPosition),
                 "ENABLED_CHANGED", FALSE)
emergencyStopInternal(M, commandId) ==
    MotorPublish([forceStopAndNewPosition([M EXCEPT !.motorEnabled = FALSE], M.stepperPosition)
                     EXCEPT !.driverEnabled = FALSE],
                 "ENABLED_CHANGED", FALSE)

(***************************************************************************)
(* StepperController: speed, current, acceleration and speed variation     *)
(* (stepper is non-null once begin() has succeeded)                        *)
(***************************************************************************)
constrain(x, low, high) == IF x < low THEN low ELSE IF x > high THEN high ELSE x
\* fmodf: the result has the sign of x
fmodf(x, y) == IF x >= 0 THEN x % y ELSE -((-x) % y)
\* sqrtf of a number of thousandths squared, in thousandths
sqrtf(n) == CHOOSE r \in 0..ONE : r * r <= n /\ (r + 1) * (r + 1) > n
\* cosf in thousandths of an angle in milliradians: cos is even and 2 pi periodic, and
\* on [-pi/2, pi/2] it is (pi^2 - 4 y^2) / (pi^2 + y^2) to within 0.002; y is taken in
\* centiradians
cosfQuarter(y) ==
    LET p == TWO_PI \div 20
        c == y \div 10
    IN  (ONE * (p * p - 4 * c * c)) \div (p * p + c * c)
cosf(a) ==
    LET x == (IF a >= 0 THEN a ELSE -a) % TWO_PI
    IN  IF x <= TWO_PI \div 4 THEN cosfQuarter(x)
        ELSE IF x <= (3 * TWO_PI) \div 4 THEN -cosfQuarter((IF x >= TWO_PI \div 2 THEN x - TWO_PI \div 2 ELSE TWO_PI \div 2 - x))
        ELSE cosfQuarter(TWO_PI - x)

\* (rpm * GEAR_RATIO * STEPS_PER_REVOLUTION * MICRO_STEPS) / 60.0f, cast to uint32_t
rpmToStepsPerSecond(rpm) ==
    rpm \div ((60 * RPM) \div (GEAR_RATIO * STEPS_PER_REVOLUTION * MICRO_STEPS))

applyStepperSpeed(M, stepsPerSecond) ==
    LET rpm == stepsPerSecond * ((60 * RPM) \div (GEAR_RATIO * STEPS_PER_REVOLUTION * MICRO_STEPS))
    IN  MotorPublish([M EXCEPT !.currentSpeedRPM = rpm,
                               !.stepperConfig.speedInHz = stepsPerSecond],
                     "SPEED_CHANGED", rpm)

applyStepperAcceleration(M, accelerationStepsPerSec2) ==
    MotorPublish([M EXCEPT !.stepperConfig.acceleration = accelerationStepsPerSec2,
                           !.currentAcceleration = accelerationStepsPerSec2],
                 "ACCELERATION_CHANGED", accelerationStepsPerSec2)

updateSpeedVariationParameters(M) ==
    LET k == (M.speedVariationStrength * 600) \div ONE
    IN  [M EXCEPT !.speedVariationK = k, !.speedVariationK0 = sqrtf(ONE * ONE - k * k)]

calculateMaxAllowedBaseSpeed(M) ==
    IF M.speedVariationStrength = 0 THEN MAX_SPEED_RPM
    ELSE Max((MAX_SPEED_RPM * (ONE - M.speedVariationK)) \div M.speedVariationK0,
             MIN_SPEED_RPM)

getPositionAngle(M) ==
    (TWO_PI * (M.stepperPosition - M.speedVariationStartPosition))
        \div (STEPS_PER_REVOLUTION * MICRO_STEPS * GEAR_RATIO)

calculateVariableSpeed(M) ==
    IF ~M.speedVariationEnabled \/ M.speedVariationStrength = 0 THEN M.currentSpeedRPM
    ELSE LET angle == getPositionAngle(M) + M.speedVariationPhase
             normalizedAngle == fmodf(angle + (IF angle < 0 THEN TWO_PI ELSE 0), TWO_PI)
             denominator == ONE + (M.speedVariationK * cosf(normalizedAngle)) \div ONE
             variableSpeed == (M.currentSpeedRPM * M.speedVariationK0) \div denominator
         IN  constrain(variableSpeed, MIN_SPEED_RPM, MAX_SPEED_RPM)

calculateRequiredAccelerationForVariableSpeed(M) ==
    IF ~M.speedVariationEnabled \/ M.speedVariationStrength = 0 THEN 0
    ELSE LET k0_over_1_plus_k == (M.speedVariationK0 * ONE) \div (ONE + M.speedVariationK)
             k0_over_1_minus_k == (M.speedVariationK0 * ONE) \div (ONE - M.speedVariationK)
             minSpeed == constrain((M.currentSpeedRPM * k0_over_1_plus_k) \div ONE,
                                   MIN_SPEED_RPM, MAX_SPEED_RPM)
             maxSpeed == constrain((M.currentSpeedRPM * k0_over_1_minus_k) \div ONE,
                                   MIN_SPEED_RPM, MAX_SPEED_RPM)
             maxSpeedChangeSteps == rpmToStepsPerSecond(maxSpeed - minSpeed)
             \* (maxSpeedChangeSteps / (30.0f / currentSpeedRPM)) * 1.5f
         IN  (maxSpeedChangeSteps * M.currentSpeedRPM) \div (20 * RPM)

updateAccelerationForVariableSpeedAlways(M) ==
    LET requiredAcceleration == calculateRequiredAccelerationForVariableSpeed(M)
    IN  IF ~M.speedVariationEnabled THEN M
        ELSE IF requiredAcceleration = 0 THEN M
        ELSE applyStepperAcceleration(M, requiredAcceleration)
updateAccelerationForVariableSpeed(M) ==
    LET requiredAcceleration == calculateRequiredAccelerationForVariableSpeed(M)
    IN  IF ~M.speedVariationEnabled THEN M
        ELSE IF requiredAcceleration = 0 THEN M
        ELSE IF requiredAcceleration > M.currentAcceleration
             THEN applyStepperAcceleration(M, requiredAcceleration)
             ELSE M

updateSpeedForVariableSpeed(M) ==
    LET maxAllowedBaseSpeed == calculateMaxAllowedBaseSpeed(M)
    IN  IF M.currentSpeedRPM > maxAllowedBaseSpeed
        THEN applyStepperSpeed(M, rpmToStepsPerSecond(maxAllowedBaseSpeed))
        ELSE M

\* the 50 ms speed update of run()
updateMotorSpeed(M) ==
    IF ~M.motorEnabled \/ ~M.speedVariationEnabled THEN M
    ELSE applyStepperSpeed(M, rpmToStepsPerSecond(calculateVariableSpeed(M)))

setSpeedInternal(M, requested, commandId) ==
    IF requested < MIN_SPEED_RPM \/ requested > MAX_SPEED_RPM
    THEN MotorNotify(MotorPublish(M, "SPEED_CHANGED", M.currentSpeedRPM),
                     commandId, "ERROR", <<"Speed out of range (0.1-30.0 RPM)">>)
    ELSE LET maxAllowedBaseSpeed == calculateMaxAllowedBaseSpeed(M)
             speedWasAdjusted == /\ M.speedVariationEnabled /\ M.speedVariationStrength > 0
                                 /\ requested > maxAllowedBaseSpeed
             rpm == IF speedWasAdjusted THEN maxAllowedBaseSpeed ELSE requested
             M1 == applyStepperSpeed(M, rpmToStepsPerSecond(rpm))
             M2 == IF M1.speedVariationEnabled THEN updateAccelerationForVariableSpeed(M1)
                   ELSE M1
             M3 == IF commandId # 0 THEN saveSettings(M2) ELSE M2
             M4 == MotorPublish(M3, "SPEED_CHANGED", rpm)
         IN  IF speedWasAdjusted /\ commandId # 0
             THEN MotorNotify(M4, commandId, "WARNING",
                              <<"Speed auto-adjusted from ", requested, " to ", rpm,
                                " RPM due to variable speed modulation limits">>)
             ELSE M4

setRunCurrentInternalClamps(M, requested, commandId) ==
    LET current == constrain(requested, 10, 100)
        M1 == [M EXCEPT !.runCurrent = current,
                        !.driverRunCurrent = IF driverCommunicating THEN current ELSE @]
        M2 == IF driverCommunicating # M1.tmc2209Initialized
              THEN [MotorPublish(M1, "TMC2209_STATUS_UPDATE", driverCommunicating)
                       EXCEPT !.tmc2209Initialized = driverCommunicating]
              ELSE M1
    IN  IF ~M2.tmc2209Initialized
        THEN MotorNotify(MotorPublish(M2, "CURRENT_CHANGED", current),
                         commandId, "ERROR",
                         <<"TMC2209 driver not responding after setting current">>)
        ELSE MotorPublish(saveSettings(M2), "CURRENT_CHANGED", current)

\* stepperDriver.setRunCurrent reaches the driver's register when the driver answers
setRunCurrentInternal(M, current, commandId) ==
    IF current < 10 \/ current > 100
    THEN MotorNotify(MotorPublish(M, "CURRENT_CHANGED", M.runCurrent),
                     commandId, "ERROR", <<"Current out of range (10-100%)">>)
    ELSE LET M1 == [M EXCEPT !.runCurrent = current,
                             !.driverRunCurrent = IF driverCommunicating THEN current ELSE @]
             newTmc2209Status == driverCommunicating
             M2 == IF newTmc2209Status # M1.tmc2209Initialized
                   THEN [MotorPublish(M1, "TMC2209_STATUS_UPDATE", newTmc2209Status)
                            EXCEPT !.tmc2209Initialized = newTmc2209Status]
                   ELSE M1
         IN  IF ~M2.tmc2209Initialized
             THEN MotorNotify(MotorPublish(M2, "CURRENT_CHANGED", current),
                              commandId, "ERROR",
                              <<"TMC2209 driver not responding after setting current">>)
             ELSE MotorPublish(saveSettings(M2), "CURRENT_CHANGED", current)

setAccelerationInternal(M, requested, commandId) ==
    LET accelWasAdjusted == requested < 100 \/ requested > 100000
        accelerationStepsPerSec2 == constrain(requested, 100, 100000)
        M1 == applyStepperAcceleration(M, accelerationStepsPerSec2)
        M2 == IF commandId # 0 THEN saveSettings(M1) ELSE M1
        M3 == MotorPublish(M2, "ACCELERATION_CHANGED", accelerationStepsPerSec2)
    IN  IF accelWasAdjusted /\ commandId # 0
        THEN MotorNotify(M3, commandId, "WARNING",
                         <<"Acceleration auto-adjusted from ", requested, " to ",
                           accelerationStepsPerSec2, " steps/s2 (allowed range: 100-100000)">>)
        ELSE M3

resetStallCountInternal(M, commandId) ==
    MotorPublish([M EXCEPT !.stallCount = 0, !.stallDetected = FALSE, !.lastStallTime = 0],
                 "STALL_COUNT_UPDATE", 0)

setSpeedVariationInternal(M, strength, commandId) ==
    IF strength < 0 \/ strength > ONE
    THEN MotorNotify(MotorPublish(M, "SPEED_VARIATION_STRENGTH_CHANGED",
                                  M.speedVariationStrength),
                     commandId, "ERROR", <<"Speed variation strength out of range (0.0-1.0)">>)
    ELSE MotorPublish(
             updateAccelerationForVariableSpeed(
                 updateSpeedForVariableSpeed(
                     updateSpeedVariationParameters(
                         [M EXCEPT !.speedVariationStrength = strength]))),
             "SPEED_VARIATION_STRENGTH_CHANGED", strength)

setSpeedVariationPhaseInternal(M, phase, commandId) ==
    LET normalized == fmodf(phase + (IF phase < 0 THEN TWO_PI ELSE 0), TWO_PI)
    IN  MotorPublish([M EXCEPT !.speedVariationPhase = normalized],
                     "SPEED_VARIATION_PHASE_CHANGED", normalized)

enableSpeedVariationInternal(M, commandId) ==
    LET M1 == updateSpeedForVariableSpeed(M)
        M2 == [M1 EXCEPT !.speedVariationStartPosition = M1.stepperPosition,
                         !.speedVariationEnabled = TRUE,
                         !.speedVariationPhase = 0]
        M3 == updateAccelerationForVariableSpeed(M2)
    IN  MotorPublish(MotorPublish(MotorPublish(M3,
            "SPEED_VARIATION_ENABLED_CHANGED", TRUE),
            "SPEED_VARIATION_PHASE_CHANGED", M3.speedVariationPhase),
            "SPEED_VARIATION_STRENGTH_CHANGED", M3.speedVariationStrength)

disableSpeedVariationInternal(M, commandId) ==
    MotorPublish(applyStepperSpeed([M EXCEPT !.speedVariationEnabled = FALSE],
                                   rpmToStepsPerSecond(M.currentSpeedRPM)),
                 "SPEED_VARIATION_ENABLED_CHANGED", FALSE)

RECURSIVE MotorPublishAll(_, _)
MotorPublishAll(M, updates) ==
    IF updates = <<>> THEN M
    ELSE MotorPublishAll(MotorPublish(M, Head(updates)[1], Head(updates)[2]), Tail(updates))

\* revolutions of the output shaft are published as floats: they are kept in microsteps
\* of the output shaft, 1/32000 of a revolution
Revolutions(n) == n * (STEPS_PER_REVOLUTION * MICRO_STEPS * GEAR_RATIO)

\* StepperController::requestAllStatusInternal
stepperRequestAllStatusInternal(M, commandId) ==
    MotorPublishAll(M,
        <<<<"SPEED_CHANGED", M.currentSpeedRPM>>,
          <<"DIRECTION_CHANGED", M.clockwise>>,
          <<"ENABLED_CHANGED", M.motorEnabled>>,
          <<"CURRENT_CHANGED", M.runCurrent>>,
          <<"ACCELERATION_CHANGED", M.currentAcceleration>>,
          <<"SPEED_VARIATION_ENABLED_CHANGED", M.speedVariationEnabled>>,
          <<"SPEED_VARIATION_STRENGTH_CHANGED", M.speedVariationStrength>>,
          <<"SPEED_VARIATION_PHASE_CHANGED", M.speedVariationPhase>>>>
        \o (IF M.speedVariationEnabled
            THEN <<<<"CURRENT_VARIABLE_SPEED_UPDATE", calculateVariableSpeed(M)>>>>
            ELSE <<>>)
        \o <<<<"TOTAL_REVOLUTIONS_UPDATE",
               Revolutions(M.totalSteps \div (STEPS_PER_REVOLUTION * GEAR_RATIO))>>,
             <<"RUNTIME_UPDATE",
               IF M.isFirstStart THEN 0 ELSE (now - M.startTime) \div 1000>>,
             <<"IS_RUNNING_UPDATE", M.stepperMove \in {"forward", "backward", "ramp_stop"}>>,
             <<"TMC2209_STATUS_UPDATE", M.tmc2209Initialized>>,
             <<"STALL_DETECTED_UPDATE", M.stallDetected>>,
             <<"STALL_COUNT_UPDATE", M.stallCount>>>>)

\* StepperController::publishPeriodicStatusUpdates with digitalRead(DIAG_PIN) and
\* millis() as read: the stall check, then the batch of status updates
stepperPublishPeriodicStatusUpdates(M, diagPinHigh, currentTime) ==
    LET motorIsRunning == M.stepperMove \in {"forward", "backward", "ramp_stop"}
        \* static_cast<float>(currentPosition) / stepsPerOutputRev
        totalRevolutions == M.stepperPosition
        runtime == IF ~M.isFirstStart /\ M.startTime > 0
                   THEN (currentTime - M.startTime) \div 1000 ELSE 0
        shouldCheckStall == M.motorEnabled /\ motorIsRunning
        M1 == IF shouldCheckStall
              THEN IF diagPinHigh /\ ~M.stallDetected
                   THEN [M EXCEPT !.stallDetected = TRUE, !.lastStallTime = currentTime,
                                  !.stallCount = (@ + 1) % 65536]
                   ELSE IF ~diagPinHigh /\ M.stallDetected
                        THEN [M EXCEPT !.stallDetected = FALSE]
                        ELSE M
              ELSE IF M.stallDetected THEN [M EXCEPT !.stallDetected = FALSE] ELSE M
    IN  MotorPublishAll(M1,
            <<<<"TOTAL_REVOLUTIONS_UPDATE", totalRevolutions>>,
              <<"IS_RUNNING_UPDATE", motorIsRunning /\ M.motorEnabled>>,
              <<"RUNTIME_UPDATE", runtime>>,
              <<"STALL_DETECTED_UPDATE", M1.stallDetected>>,
              <<"STALL_COUNT_UPDATE", M1.stallCount>>>>
            \o (IF M.speedVariationEnabled
                THEN <<<<"CURRENT_VARIABLE_SPEED_UPDATE", calculateVariableSpeed(M)>>>>
                ELSE <<>>))

\* the switch of processCommand
processCommand(M, cmd) ==
    CASE cmd.command = "SET_DIRECTION" -> setDirectionInternal(M, cmd.value, cmd.commandId)
      [] cmd.command = "ENABLE" -> enableInternal(M, cmd.commandId)
      [] cmd.command = "DISABLE" -> disableInternal(M, cmd.commandId)
      [] cmd.command = "EMERGENCY_STOP" -> emergencyStopInternal(M, cmd.commandId)
      [] cmd.command = "RESET_COUNTERS" -> resetCountersInternal(M, cmd.commandId)
      [] cmd.command = "SET_SPEED" -> setSpeedInternal(M, cmd.value, cmd.commandId)
      [] cmd.command = "SET_CURRENT" -> setRunCurrentInternal(M, cmd.value, cmd.commandId)
      [] cmd.command = "SET_ACCELERATION" -> setAccelerationInternal(M, cmd.value, cmd.commandId)
      [] cmd.command = "RESET_STALL_COUNT" -> resetStallCountInternal(M, cmd.commandId)
      [] cmd.command = "SET_SPEED_VARIATION" -> setSpeedVariationInternal(M, cmd.value, cmd.commandId)
      [] cmd.command = "SET_SPEED_VARIATION_PHASE" ->
             setSpeedVariationPhaseInternal(M, cmd.value, cmd.commandId)
      [] cmd.command = "ENABLE_SPEED_VARIATION" -> enableSpeedVariationInternal(M, cmd.commandId)
      [] cmd.command = "DISABLE_SPEED_VARIATION" -> disableSpeedVariationInternal(M, cmd.commandId)
      [] cmd.command = "REQUEST_ALL_STATUS" -> stepperRequestAllStatusInternal(M, cmd.commandId)

\* the members, and what the handler published, written back
MotorCommit(M) ==
    /\ motorEnabled' = M.motorEnabled
    /\ clockwise' = M.clockwise
    /\ isFirstStart' = M.isFirstStart
    /\ startTime' = M.startTime
    /\ totalSteps' = M.totalSteps
    /\ driverEnabled' = M.driverEnabled
    /\ stepperMove' = M.stepperMove
    /\ stepperPosition' = M.stepperPosition
    /\ stepperConfig' = M.stepperConfig
    /\ preferences' = M.preferences
    /\ currentSpeedRPM' = M.currentSpeedRPM
    /\ runCurrent' = M.runCurrent
    /\ currentAcceleration' = M.currentAcceleration
    /\ speedVariationEnabled' = M.speedVariationEnabled
    /\ speedVariationStrength' = M.speedVariationStrength
    /\ speedVariationPhase' = M.speedVariationPhase
    /\ speedVariationStartPosition' = M.speedVariationStartPosition
    /\ speedVariationK' = M.speedVariationK
    /\ speedVariationK0' = M.speedVariationK0
    /\ tmc2209Initialized' = M.tmc2209Initialized
    /\ driverRunCurrent' = M.driverRunCurrent
    /\ stallDetected' = M.stallDetected
    /\ lastStallTime' = M.lastStallTime
    /\ stallCount' = M.stallCount
    /\ statusUpdateQueue' = xQueueSendAll(statusUpdateQueue, STATUS_UPDATE_QUEUE_SIZE, M.pub)
    /\ notificationQueue' = xQueueSendAll(notificationQueue, NOTIFICATION_QUEUE_SIZE, M.notes)

MotorReceiveEmergencyStopFlushes ==
    /\ commandQueue # <<>>
    /\ LET cmd == xQueueFront(commandQueue)
       IN  /\ delivered' = LogDelivered("command", cmd)
           /\ handledByMotor' = Append(handledByMotor, cmd.seq)
           /\ motorTrace' = SubSeq(Append(motorTrace, cmd.command),
                                   Max(1, Len(motorTrace) - 1), Len(motorTrace) + 1)
           /\ MotorCommit(processCommand(MotorState, cmd))
           /\ commandQueue' = IF cmd.command = "EMERGENCY_STOP" THEN <<>>
                              ELSE xQueueRemoveFront(commandQueue)
    /\ UNCHANGED <<pdCommandQueue, sendVars, traced, accepted, now, driverCommunicating,
                   runVars, handledByPD, pdVars>>

\* StepperController::run, one round of its loop in which xQueueReceive returns a command
MotorReceive ==
    /\ commandQueue # <<>>
    /\ LET cmd == xQueueFront(commandQueue)
       IN  /\ delivered' = LogDelivered("command", cmd)
           /\ handledByMotor' = Append(handledByMotor, cmd.seq)
           /\ motorTrace' = SubSeq(Append(motorTrace, cmd.command),
                                   Max(1, Len(motorTrace) - 1), Len(motorTrace) + 1)
           /\ MotorCommit(processCommand(MotorState, cmd))
    /\ commandQueue' = xQueueRemoveFront(commandQueue)
    /\ UNCHANGED <<pdCommandQueue, sendVars, traced, accepted, now, driverCommunicating,
                   runVars, handledByPD, pdVars>>

\* time passes while the stepper task is blocked in xQueueReceive or preempted
MotorTimePasses ==
    /\ now < MotorMaxTime
    /\ now' = now + 1
    /\ UNCHANGED <<queueVars, sendVars, traceVars, motorVars, handledVars, pdVars>>

\* the stepper hardware emits a step
StepperSteps ==
    /\ stepperMove \in {"forward", "backward", "ramp_stop"}
    /\ stepperPosition' = stepperPosition + (IF stepperMove = "backward" THEN -1 ELSE 1)
    /\ stepperPosition' \in -MaxPosition..MaxPosition
    /\ UNCHANGED <<queueVars, sendVars, traceVars, now, motorEnabled, clockwise, isFirstStart,
                   startTime, totalSteps, driverEnabled, stepperMove, stepperConfig,
                   preferences, settingVars, driverCommunicating, runVars, handledVars,
                   pdVars>>

\* the deceleration ramp of stopMove reaches standstill
StepperRampEnds ==
    /\ stepperMove = "ramp_stop"
    /\ stepperMove' = "idle"
    /\ UNCHANGED <<queueVars, sendVars, traceVars, now, motorEnabled, clockwise, isFirstStart,
                   startTime, totalSteps, driverEnabled, stepperPosition, stepperConfig,
                   preferences, settingVars, driverCommunicating, runVars, handledVars,
                   pdVars>>

\* StepperController::enable / disable / setDirection / resetCounters as the gateway
\* calls them
MotorCommands ==
    [command : {"ENABLE", "DISABLE", "RESET_COUNTERS"}, value : {0}]
      \cup [command : {"SET_DIRECTION"}, value : BOOLEAN]

SendStepperCommand(commands, commandIds) ==
    \E c \in commands, commandId \in commandIds :
        sendCommand(StepperCommandData(c.command, c.value, commandId))

\* ... one at a time: the next one once the task has taken the previous one
GatewaySendsStepperCommand ==
    /\ accepted["command"] < MaxMotorCmds
    /\ commandQueue = <<>>
    /\ SendStepperCommand(MotorCommands, CommandIds)

\* ... without waiting for the task
GatewayQueuesStepperCommand ==
    /\ accepted["command"] < MaxTaskCmds
    /\ SendStepperCommand([command : {"ENABLE", "DISABLE"}, value : {0}], {1})

GatewayQueuesEmergencyStop ==
    /\ accepted["command"] < MaxTaskCmds
    /\ estopCalls < MaxEstops
    /\ emergencyStop

GatewayEmergencyStop ==
    /\ accepted["command"] < MaxMotorCmds
    /\ estopCalls < MaxEstops
    /\ emergencyStop

\* StepperController::setSpeed / setAcceleration / setSpeedVariation /
\* setSpeedVariationPhase / enableSpeedVariation / disableSpeedVariation / enable as the
\* gateway calls them; the last five stamp the command with nextCommandId++
SpeedInputs == {MIN_SPEED_RPM, MAX_SPEED_RPM, 40 * RPM}
AccelerationInputs == {100}
StrengthInputs == {ONE \div 2, ONE}
PhaseInputs == {-7000, -1000, 7000}
TuningCommands ==
    [command : {"SET_SPEED"}, value : SpeedInputs, commandId : CommandIds]
      \cup [command : {"SET_ACCELERATION"}, value : AccelerationInputs, commandId : CommandIds]
      \cup [command : {"SET_SPEED_VARIATION"}, value : StrengthInputs, commandId : {1}]
      \cup [command : {"SET_SPEED_VARIATION_PHASE"}, value : PhaseInputs, commandId : {1}]
      \cup [command : {"ENABLE_SPEED_VARIATION", "DISABLE_SPEED_VARIATION"},
            value : {0}, commandId : {1}]
      \cup [command : {"ENABLE"}, value : {0}, commandId : {1}]

GatewaySendsTuningCommand ==
    /\ accepted["command"] < MaxTuningCmds
    /\ commandQueue = <<>>
    /\ \E c \in TuningCommands : sendCommand(StepperCommandData(c.command, c.value, c.commandId))

\* StepperController::setRunCurrent / resetStallCount / resetCounters / requestAllStatus as
\* the gateway calls them
CurrentInputs == {5, 50, 101}
DriverCommands ==
    [command : {"SET_CURRENT"}, value : CurrentInputs, commandId : CommandIds]
      \cup [command : {"RESET_STALL_COUNT", "RESET_COUNTERS"}, value : {0}, commandId : CommandIds]
      \cup [command : {"REQUEST_ALL_STATUS"}, value : {0}, commandId : {1}]

GatewaySendsDriverCommand ==
    /\ accepted["command"] < MaxTuningCmds
    /\ commandQueue = <<>>
    /\ \E c \in DriverCommands : sendCommand(StepperCommandData(c.command, c.value, c.commandId))

\* StepperController::run, a round of its loop in which xQueueReceive times out and the
\* 50 ms speed update is due (the time of the round is left to MotorTimePasses)
MotorSpeedUpdate ==
    /\ commandQueue = <<>>
    /\ MotorCommit(updateMotorSpeed(MotorState))
    /\ UNCHANGED <<commandQueue, pdCommandQueue, sendVars, traceVars, now,
                   driverCommunicating, runVars, handledVars, pdVars>>

\* StepperController::setStallGuardThreshold(threshold), a public function that runs in
\* the task of its caller (the threshold register of the driver is not part of the model)
setStallGuardThreshold ==
    /\ tmc2209Initialized
    /\ tmc2209Initialized' = driverCommunicating
    /\ statusUpdateQueue' =
           IF driverCommunicating # tmc2209Initialized
           THEN xQueueSend(statusUpdateQueue, STATUS_UPDATE_QUEUE_SIZE,
                           StatusUpdateData("TMC2209_STATUS_UPDATE", driverCommunicating))
           ELSE statusUpdateQueue
    /\ UNCHANGED <<commandQueue, pdCommandQueue, notificationQueue, sendVars, traceVars, now,
                   motorEnabled, clockwise, isFirstStart, startTime, totalSteps,
                   driverEnabled, stepperMove, stepperPosition, stepperConfig, preferences,
                   currentSpeedRPM, runCurrent, currentAcceleration, speedVariationEnabled,
                   speedVariationStrength, speedVariationPhase, speedVariationStartPosition,
                   speedVariationK, speedVariationK0, driverRunCurrent, stallDetected,
                   lastStallTime, stallCount, driverCommunicating, runVars, handledVars,
                   pdVars>>

\* StepperController::run, a round of its loop in which the 500 ms status update is due
MotorPeriodicStatus ==
    /\ MotorCommit(stepperPublishPeriodicStatusUpdates(MotorState, diagPin, now))
    /\ diagRose' = FALSE
    /\ UNCHANGED <<commandQueue, pdCommandQueue, sendVars, traceVars, now,
                   driverCommunicating, diagPin, clockVars, handledVars, pdVars>>

\* the TMC2209 raises or lowers its DIAG output
DiagPinChanges ==
    /\ diagPin \/ stallCount < MaxStalls
    /\ diagPin' = ~diagPin
    /\ diagRose' = (diagRose \/ diagPin')
    /\ UNCHANGED <<queueVars, sendVars, traceVars, now, motorEnabled, clockwise, isFirstStart,
                   startTime, totalSteps, driverEnabled, stepperMove, stepperPosition,
                   stepperConfig, preferences, settingVars, driverCommunicating, clockVars,
                   handledVars, pdVars>>

\* the commands of the status screen of the gateway
StallCommands ==
    [command : {"ENABLE", "DISABLE", "RESET_STALL_COUNT", "REQUEST_ALL_STATUS",
                "ENABLE_SPEED_VARIATION"},
     value : {0}, commandId : {1}]

GatewaySendsStallCommand ==
    /\ accepted["command"] < MaxStallCmds
    /\ commandQueue = <<>>
    /\ \E c \in StallCommands : sendCommand(StepperCommandData(c.command, c.value, c.commandId))

\* roundUpdates of an update that the round did not perform
NotPerformed == 0 - 1

\* millis() when t milliseconds have passed since the first state
millis(t) == U32Add(clockBase, U32(t))

\* StepperController::calculateQueueTimeout, in milliseconds; currentTime is its millis()
calculateQueueTimeout(nextUpdate, currentTime) ==
    IF U32Less(nextUpdate, currentTime) THEN 0
    ELSE LET timeUntilUpdate == U32Sub(nextUpdate, currentTime)
         IN  IF timeUntilUpdate[1] = 0 /\ timeUntilUpdate[2] < 100 THEN timeUntilUpdate[2]
             ELSE 100

\* StepperController::isUpdateDue; currentTime is its millis()
isUpdateDue(nextUpdate, currentTime) ==
    IF /\ U32Less(currentTime, nextUpdate)
       /\ U32Less(<<2^15, 0>>, U32Sub(nextUpdate, currentTime))
    THEN TRUE
    ELSE ~U32Less(currentTime, nextUpdate)

\* how long the task is kept from running after xQueueReceive returns, and by how much
\* millis() advances between two reads of it in one round of the loop
Preemptions == {0, 20}
MillisSkews == {0, 1}

\* StepperController::run, one round of its loop: xQueueReceive returns a queued command
\* at once or times out, the command is processed, millis() is cached, and each update
\* that isUpdateDue reports is performed and rescheduled from the cached time
MotorRunRound ==
    \E late \in Preemptions, skewStatus \in MillisSkews, skewSpeed \in MillisSkews :
        LET nextEvent == U32Min(nextPeriodicUpdate, nextSpeedUpdate)
            timeout == calculateQueueTimeout(nextEvent, millis(now))
            received == commandQueue # <<>>
            cmd == xQueueFront(commandQueue)
            cached == now + (IF received THEN 0 ELSE timeout) + late
            currentTime == millis(cached)
            M1 == IF received THEN processCommand(MotorState, cmd) ELSE MotorState
            statusAt == cached + skewStatus
            statusDue == isUpdateDue(nextPeriodicUpdate, millis(statusAt))
            M2 == IF statusDue THEN stepperPublishPeriodicStatusUpdates(M1, diagPin, statusAt)
                  ELSE M1
            speedAt == statusAt + skewSpeed
            speedDue == isUpdateDue(nextSpeedUpdate, millis(speedAt))
            M3 == IF speedDue THEN updateMotorSpeed(M2) ELSE M2
        IN  /\ speedAt <= ClockMaxTime
            /\ now' = speedAt
            /\ MotorCommit(M3)
            /\ nextPeriodicUpdate' = IF statusDue
                                     THEN U32Add(currentTime, U32(STATUS_UPDATE_INTERVAL))
                                     ELSE nextPeriodicUpdate
            /\ nextSpeedUpdate' = IF speedDue
                                  THEN U32Add(currentTime, U32(MOTOR_SPEED_UPDATE_INTERVAL))
                                  ELSE nextSpeedUpdate
            /\ lastStatusAt' = IF statusDue THEN statusAt ELSE lastStatusAt
            /\ lastSpeedAt' = IF speedDue THEN speedAt ELSE lastSpeedAt
            /\ roundUpdates' = [status |-> IF statusDue THEN statusAt - lastStatusAt
                                           ELSE NotPerformed,
                                 speed |-> IF speedDue THEN speedAt - lastSpeedAt
                                           ELSE NotPerformed]
            /\ diagRose' = (diagRose /\ ~statusDue)
            /\ IF received
               THEN /\ delivered' = LogDelivered("command", cmd)
                    /\ handledByMotor' = Append(handledByMotor, cmd.seq)
                    /\ motorTrace' = SubSeq(Append(motorTrace, cmd.command),
                                            Max(1, Len(motorTrace) - 1), Len(motorTrace) + 1)
                    /\ commandQueue' = xQueueRemoveFront(commandQueue)
               ELSE UNCHANGED <<delivered, handledByMotor, motorTrace, commandQueue>>
            /\ UNCHANGED <<pdCommandQueue, sendVars, traced, accepted, driverCommunicating,
                           diagPin, clockBase, handledByPD, pdVars>>

\* a command of the gateway that arrives while the loop runs
GatewaySendsClockCommand ==
    /\ accepted["command"] < MaxClockCmds
    /\ commandQueue = <<>>
    /\ sendCommand(StepperCommandData("RESET_STALL_COUNT", 0, 1))

\* the serial link to the TMC2209 fails or recovers
DriverLinkChanges ==
    /\ driverCommunicating' = ~driverCommunicating
    /\ UNCHANGED <<queueVars, sendVars, traceVars, now, motorEnabled, clockwise, isFirstStart,
                   startTime, totalSteps, driverEnabled, stepperMove, stepperPosition,
                   stepperConfig, preferences, settingVars, runVars, handledVars, pdVars>>

(***************************************************************************)
(* PowerDeliveryTask                                                       *)
(***************************************************************************)
\* values the gateway puts into SET_TARGET_VOLTAGE
TargetVoltageInputs == {4, 7, PD_VOLTAGE_12V, 21}
\* analogRead(VBUS_PIN) readings
ADCReadings == {1771}
\* how long one vTaskDelay(pdMS_TO_TICKS(10)) of the loop lasts, preemption included
PDDelays == {PD_POWER_GOOD_DEBOUNCE, PD_NEGOTIATION_TIMEOUT}

\* the task's members as one record, so that calls compose; pub and notes are the
\* status updates and notifications published so far by the running handler
PDState ==
    [targetVoltage |-> targetVoltage, negotiatedVoltage |-> negotiatedVoltage,
     powerGoodState |-> powerGoodState, lastPowerGoodState |-> lastPowerGoodState,
     powerGoodDebounceTime |-> powerGoodDebounceTime,
     negotiationState |-> negotiationState, negotiationStartTime |-> negotiationStartTime,
     isAutoNegotiating |-> isAutoNegotiating,
     autoNegotiationVoltageIndex |-> autoNegotiationVoltageIndex,
     autoNegotiationHighestVoltage |-> autoNegotiationHighestVoltage,
     cfgPins |-> cfgPins, cfgChangeTime |-> cfgChangeTime, autoTried |-> autoTried,
     pgAssertedSince |-> pgAssertedSince, isInitialized |-> isInitialized,
     pub |-> <<>>, notes |-> <<>>]

\* static_cast<int>(negotiationState)
PDNegotiationStateCode(state) ==
    CASE state = "IDLE" -> 0
      [] state = "NEGOTIATING" -> 1
      [] state = "SUCCESS" -> 2
      [] state = "FAILED" -> 3
      [] state = "AUTO_NEGOTIATING" -> 4

\* CFG1, CFG2, CFG3 as pdConfigureVoltage's switch writes them
CfgPinsFor(voltage) ==
    CASE voltage = PD_VOLTAGE_5V -> <<1, 0, 0>>
      [] voltage = PD_VOLTAGE_9V -> <<0, 0, 0>>
      [] voltage = PD_VOLTAGE_12V -> <<0, 0, 1>>
      [] voltage = PD_VOLTAGE_15V -> <<0, 1, 1>>
      [] voltage = PD_VOLTAGE_20V -> <<0, 1, 0>>
      [] OTHER -> <<0, 0, 1>>

pdInvalidatePowerGoodOmitted(S) == S
pdInvalidatePowerGood(S) ==
    [S EXCEPT !.powerGoodState = FALSE, !.lastPowerGoodState = FALSE,
              !.powerGoodDebounceTime = now]

pdConfigureVoltage(S, voltage) ==
    pdInvalidatePowerGood([S EXCEPT !.cfgPins = CfgPinsFor(voltage), !.cfgChangeTime = now])

\* (adcValue * VREF / ADC_RESOLUTION) / DIV_RATIO, in millivolts
pdMeasureVoltage(adcValue) == (((adcValue * 3300) \div 4096) * 10000) \div 1189

\* pdCheckPowerGood with digitalRead(PG_PIN) == LOW read as currentPGState;
\* the value it returns is the resulting powerGoodState
pdCheckPowerGood(S, currentPGState) ==
    LET S1 == IF currentPGState # S.lastPowerGoodState
              THEN [S EXCEPT !.powerGoodDebounceTime = now,
                             !.lastPowerGoodState = currentPGState]
              ELSE S
        S2 == IF /\ now - S1.powerGoodDebounceTime >= PD_POWER_GOOD_DEBOUNCE
                 /\ S1.powerGoodState # currentPGState
              THEN [S1 EXCEPT !.powerGoodState = currentPGState]
              ELSE S1
    IN  [S2 EXCEPT !.pgAssertedSince =
                       IF currentPGState THEN (IF @ = -1 THEN now ELSE @) ELSE -1]

PDPublish(S, type, value) == [S EXCEPT !.pub = Append(@, StatusUpdateData(type, value))]
PDNotify(S, type, message) == [S EXCEPT !.notes = Append(@, NotificationData(type, message))]

publishNegotiationStatus(S) ==
    PDPublish(PDPublish(S, "PD_NEGOTIATION_STATUS", PDNegotiationStateCode(S.negotiationState)),
              "PD_NEGOTIATED_VOLTAGE", S.negotiatedVoltage)

publishPowerGoodStatus(S, currentPGState) ==
    LET S1 == pdCheckPowerGood(S, currentPGState)
    IN  PDPublish(S1, "PD_POWER_GOOD_STATUS", S1.powerGoodState)

publishVoltageStatus(S, adcValue) ==
    PDPublish(S, "PD_CURRENT_VOLTAGE", pdMeasureVoltage(adcValue))

publishPeriodicStatusUpdates(S, currentPGState, adcValue) ==
    publishVoltageStatus(publishPowerGoodStatus(S, currentPGState), adcValue)

applyNegotiationVoltageKeepsTimer(S, voltage) ==
    IF ~S.isInitialized THEN S
    ELSE IF voltage < PD_VOLTAGE_5V \/ voltage > PD_VOLTAGE_20V THEN S
    ELSE publishNegotiationStatus(
             pdConfigureVoltage([S EXCEPT !.negotiationState = "NEGOTIATING",
                                          !.targetVoltage = voltage,
                                          !.negotiatedVoltage = 0,
                                          !.autoTried = <<>>], voltage))
applyNegotiationVoltage(S, voltage) ==
    IF ~S.isInitialized THEN S
    ELSE IF voltage < PD_VOLTAGE_5V \/ voltage > PD_VOLTAGE_20V THEN S
    ELSE publishNegotiationStatus(
             pdConfigureVoltage([S EXCEPT !.negotiationState = "NEGOTIATING",
                                          !.negotiationStartTime = now,
                                          !.targetVoltage = voltage,
                                          !.negotiatedVoltage = 0,
                                          !.autoTried = <<>>], voltage))

\* autoNegotiationVoltages[index] of the C array; an index outside 0..4 reads past it
AutoVoltageAt(index) ==
    IF index \in 0..4 THEN autoNegotiationVoltages[index + 1] ELSE -1

handleSingleVoltageNegotiationWaits(S, currentTime, currentPGState, adcValue) ==
    LET S1 == pdCheckPowerGood(S, currentPGState)
    IN  IF S1.powerGoodState
        THEN publishVoltageStatus(publishNegotiationStatus(
                 [S1 EXCEPT !.negotiationState = "SUCCESS",
                            !.negotiatedVoltage = S1.targetVoltage]), adcValue)
        ELSE S1
handleSingleVoltageNegotiationTimeoutFirst(S, currentTime, currentPGState, adcValue) ==
    LET S1 == pdCheckPowerGood(S, currentPGState)
    IN  IF currentTime - S1.negotiationStartTime >= PD_NEGOTIATION_TIMEOUT
        THEN publishVoltageStatus(publishNegotiationStatus(
                 [S1 EXCEPT !.negotiationState = "FAILED", !.negotiatedVoltage = 0]), adcValue)
        ELSE IF S1.powerGoodState
        THEN publishVoltageStatus(publishNegotiationStatus(
                 [S1 EXCEPT !.negotiationState = "SUCCESS",
                            !.negotiatedVoltage = S1.targetVoltage]), adcValue)
        ELSE S1
handleSingleVoltageNegotiation(S, currentTime, currentPGState, adcValue) ==
    LET S1 == pdCheckPowerGood(S, currentPGState)
    IN  IF S1.powerGoodState
        THEN publishVoltageStatus(publishNegotiationStatus(
                 [S1 EXCEPT !.negotiationState = "SUCCESS",
                            !.negotiatedVoltage = S1.targetVoltage]), adcValue)
        ELSE IF currentTime - S1.negotiationStartTime >= PD_NEGOTIATION_TIMEOUT
        THEN publishVoltageStatus(publishNegotiationStatus(
                 [S1 EXCEPT !.negotiationState = "FAILED", !.negotiatedVoltage = 0]), adcValue)
        ELSE S1

handleAutoNegotiationSkipsOne(S, currentTime, currentPGState, adcValue) ==
    LET S1 == pdCheckPowerGood(S, currentPGState)
    IN  IF S1.powerGoodState
        THEN publishVoltageStatus(publishNegotiationStatus(
                 [S1 EXCEPT !.autoNegotiationHighestVoltage = AutoVoltageAt(S1.autoNegotiationVoltageIndex),
                            !.negotiationState = "SUCCESS",
                            !.negotiatedVoltage = AutoVoltageAt(S1.autoNegotiationVoltageIndex),
                            !.targetVoltage = AutoVoltageAt(S1.autoNegotiationVoltageIndex),
                            !.isAutoNegotiating = FALSE]), adcValue)
        ELSE IF currentTime - S1.negotiationStartTime >= PD_NEGOTIATION_TIMEOUT
        THEN LET index == S1.autoNegotiationVoltageIndex + 2
                 S2 == [S1 EXCEPT !.autoNegotiationVoltageIndex = index]
             IN  IF index >= 5
                 THEN publishVoltageStatus(publishNegotiationStatus(
                          [S2 EXCEPT !.negotiationState = "FAILED", !.negotiatedVoltage = 0,
                                     !.isAutoNegotiating = FALSE]), adcValue)
                 ELSE publishNegotiationStatus(
                          [pdConfigureVoltage(S2, AutoVoltageAt(index))
                              EXCEPT !.negotiationStartTime = currentTime,
                                     !.autoTried = Append(@, AutoVoltageAt(index))])
        ELSE S1
handleAutoNegotiation(S, currentTime, currentPGState, adcValue) ==
    LET S1 == pdCheckPowerGood(S, currentPGState)
    IN  IF S1.powerGoodState
        THEN publishVoltageStatus(publishNegotiationStatus(
                 [S1 EXCEPT !.autoNegotiationHighestVoltage = AutoVoltageAt(S1.autoNegotiationVoltageIndex),
                            !.negotiationState = "SUCCESS",
                            !.negotiatedVoltage = AutoVoltageAt(S1.autoNegotiationVoltageIndex),
                            !.targetVoltage = AutoVoltageAt(S1.autoNegotiationVoltageIndex),
                            !.isAutoNegotiating = FALSE]), adcValue)
        ELSE IF currentTime - S1.negotiationStartTime >= PD_NEGOTIATION_TIMEOUT
        THEN LET index == S1.autoNegotiationVoltageIndex + 1
                 S2 == [S1 EXCEPT !.autoNegotiationVoltageIndex = index]
             IN  IF index >= 5
                 THEN publishVoltageStatus(publishNegotiationStatus(
                          [S2 EXCEPT !.negotiationState = "FAILED", !.negotiatedVoltage = 0,
                                     !.isAutoNegotiating = FALSE]), adcValue)
                 ELSE publishNegotiationStatus(
                          [pdConfigureVoltage(S2, AutoVoltageAt(index))
                              EXCEPT !.negotiationStartTime = currentTime,
                                     !.autoTried = Append(@, AutoVoltageAt(index))])
        ELSE S1

updateNegotiationStateWatchesSuccess(S, currentPGState, adcValue) ==
    CASE S.negotiationState = "NEGOTIATING" ->
             handleSingleVoltageNegotiation(S, now, currentPGState, adcValue)
      [] S.negotiationState = "AUTO_NEGOTIATING" ->
             handleAutoNegotiation(S, now, currentPGState, adcValue)
      [] S.negotiationState = "SUCCESS" /\ ~currentPGState ->
             [S EXCEPT !.negotiationState = "FAILED", !.negotiatedVoltage = 0]
      [] OTHER -> S
updateNegotiationState(S, currentPGState, adcValue) ==
    CASE S.negotiationState = "NEGOTIATING" ->
             handleSingleVoltageNegotiation(S, now, currentPGState, adcValue)
      [] S.negotiationState = "AUTO_NEGOTIATING" ->
             handleAutoNegotiation(S, now, currentPGState, adcValue)
      [] OTHER -> S

setTargetVoltageInternal(S, voltage, adcValue) ==
    IF voltage < PD_VOLTAGE_5V \/ voltage > PD_VOLTAGE_20V
    THEN PDNotify(publishVoltageStatus(publishNegotiationStatus(S), adcValue),
                  "ERROR", <<"Invalid target voltage requested: ", voltage, "V">>)
    ELSE applyNegotiationVoltage(S, voltage)

autoNegotiateHighestVoltageInternalKeepsIndex(S) ==
    IF ~S.isInitialized THEN S
    ELSE publishNegotiationStatus(
             pdConfigureVoltage([S EXCEPT !.isAutoNegotiating = TRUE,
                                          !.autoNegotiationHighestVoltage = 0,
                                          !.negotiationState = "AUTO_NEGOTIATING",
                                          !.negotiationStartTime = now,
                                          !.negotiatedVoltage = 0,
                                          !.targetVoltage = AutoVoltageAt(0),
                                          !.autoTried = <<AutoVoltageAt(0)>>],
                                AutoVoltageAt(0)))
autoNegotiateHighestVoltageInternal(S) ==
    IF ~S.isInitialized THEN S
    ELSE publishNegotiationStatus(
             pdConfigureVoltage([S EXCEPT !.isAutoNegotiating = TRUE,
                                          !.autoNegotiationVoltageIndex = 0,
                                          !.autoNegotiationHighestVoltage = 0,
                                          !.negotiationState = "AUTO_NEGOTIATING",
                                          !.negotiationStartTime = now,
                                          !.negotiatedVoltage = 0,
                                          !.targetVoltage = AutoVoltageAt(0),
                                          !.autoTried = <<AutoVoltageAt(0)>>],
                                AutoVoltageAt(0)))

requestAllStatusInternal(S, currentPGState, adcValue) ==
    publishVoltageStatus(publishPowerGoodStatus(publishNegotiationStatus(S), currentPGState),
                         adcValue)

initializeHardware(S) == pdConfigureVoltage(S, PD_VOLTAGE_12V)

\* the members, and what the handler published, written back
PDCommit(S) ==
    /\ targetVoltage' = S.targetVoltage
    /\ negotiatedVoltage' = S.negotiatedVoltage
    /\ powerGoodState' = S.powerGoodState
    /\ lastPowerGoodState' = S.lastPowerGoodState
    /\ powerGoodDebounceTime' = S.powerGoodDebounceTime
    /\ negotiationState' = S.negotiationState
    /\ negotiationStartTime' = S.negotiationStartTime
    /\ isAutoNegotiating' = S.isAutoNegotiating
    /\ autoNegotiationVoltageIndex' = S.autoNegotiationVoltageIndex
    /\ autoNegotiationHighestVoltage' = S.autoNegotiationHighestVoltage
    /\ cfgPins' = S.cfgPins
    /\ cfgChangeTime' = S.cfgChangeTime
    /\ autoTried' = S.autoTried
    /\ pgAssertedSince' = S.pgAssertedSince
    /\ isInitialized' = S.isInitialized
    /\ statusUpdateQueue' = xQueueSendAll(statusUpdateQueue, STATUS_UPDATE_QUEUE_SIZE, S.pub)
    /\ notificationQueue' = xQueueSendAll(notificationQueue, NOTIFICATION_QUEUE_SIZE, S.notes)

\* PowerDeliveryTask::run up to its loop
PDRunStart ==
    /\ pdPc = "start"
    /\ PDCommit(autoNegotiateHighestVoltageInternal(
                    [initializeHardware(PDState) EXCEPT !.isInitialized = TRUE]))
    /\ pdPc' = "loop"
    /\ UNCHANGED <<commandQueue, pdCommandQueue, sendVars, traceVars, now, motorVars,
                   handledVars, lastStatusUpdate, pgPin, pgToggles, pdLoops>>

\* processCommands: one round of its while loop, a getPowerDeliveryCommand(command, 0)
\* that returns a command and the switch on it
processCommands ==
    /\ pdPc = "loop"
    /\ pdCommandQueue # <<>>
    /\ LET command == xQueueFront(pdCommandQueue)
       IN  /\ delivered' = LogDelivered("pd", command)
           /\ handledByPD' = Append(handledByPD, command.seq)
           /\ \E adcValue \in ADCReadings :
                PDCommit(CASE command.command = "SET_TARGET_VOLTAGE" ->
                                  setTargetVoltageInternal(PDState, command.value, adcValue)
                           [] command.command = "AUTO_NEGOTIATE_HIGHEST" ->
                                  autoNegotiateHighestVoltageInternal(PDState)
                           [] command.command = "REQUEST_ALL_STATUS" ->
                                  requestAllStatusInternal(PDState, pgPin, adcValue)
                           [] OTHER -> PDState)
    /\ pdCommandQueue' = xQueueRemoveFront(pdCommandQueue)
    /\ UNCHANGED <<commandQueue, sendVars, traced, accepted, now, motorVars, handledByMotor,
                   motorTrace, pdPc, lastStatusUpdate, pgPin, pgToggles, pdLoops>>

\* the periodic block of run()
PDPeriodicStatus(S, currentTime, adcValue) ==
    IF currentTime - lastStatusUpdate >= PD_STATUS_UPDATE_INTERVAL
    THEN publishVoltageStatus(publishPowerGoodStatus(
             publishPeriodicStatusUpdates(S, pgPin, adcValue), pgPin), adcValue)
    ELSE S

\* the rest of one round of run()'s loop once processCommands has found the queue empty:
\* updateNegotiationState, the periodic block, and vTaskDelay(pdMS_TO_TICKS(10)), which
\* returns after d ms (preemption included); the clock is followed for maxLoops rounds
PDLoopWithin(maxLoops) ==
    /\ pdPc = "loop"
    /\ pdCommandQueue = <<>>
    /\ \E adcValue \in ADCReadings :
         PDCommit(PDPeriodicStatus(updateNegotiationState(PDState, pgPin, adcValue),
                                   now, adcValue))
    /\ lastStatusUpdate' = IF now - lastStatusUpdate >= PD_STATUS_UPDATE_INTERVAL
                           THEN now ELSE lastStatusUpdate
    /\ IF pdLoops < maxLoops
       THEN (\E d \in PDDelays : now' = now + d) /\ pdLoops' = pdLoops + 1
       ELSE UNCHANGED <<now, pdLoops>>
    /\ UNCHANGED <<commandQueue, pdCommandQueue, sendVars, traceVars, motorVars,
                   handledVars, pdPc, pgPin, pgToggles>>

PDLoop == PDLoopWithin(MaxPDLoops)

\* the same round, followed up to the point where the task blocks: run() has called
\* vTaskDelay(pdMS_TO_TICKS(10)) and has not returned from it
PDLoopBlocks ==
    /\ pdPc = "loop"
    /\ pdCommandQueue = <<>>
    /\ pdLoops < MaxPDLoops
    /\ \E adcValue \in ADCReadings :
         PDCommit(PDPeriodicStatus(updateNegotiationState(PDState, pgPin, adcValue),
                                   now, adcValue))
    /\ lastStatusUpdate' = IF now - lastStatusUpdate >= PD_STATUS_UPDATE_INTERVAL
                           THEN now ELSE lastStatusUpdate
    /\ pdPc' = "delay"
    /\ pdLoops' = pdLoops + 1
    /\ UNCHANGED <<commandQueue, pdCommandQueue, sendVars, traceVars, now, motorVars,
                   handledVars, pgPin, pgToggles>>

\* vTaskDelay returns after d ms and the next round of the loop begins
PDDelayEnds ==
    /\ pdPc = "delay"
    /\ \E d \in PDDelays : now' = now + d
    /\ pdPc' = "loop"
    /\ UNCHANGED <<queueVars, sendVars, traceVars, motorVars, handledVars,
                   isInitialized, targetVoltage, negotiatedVoltage, powerGoodState,
                   lastPowerGoodState, powerGoodDebounceTime, negotiationState,
                   negotiationStartTime, isAutoNegotiating, autoNegotiationVoltageIndex,
                   autoNegotiationHighestVoltage, lastStatusUpdate, cfgPins,
                   cfgChangeTime, autoTried, pgAssertedSince, pgPin, pgToggles, pdLoops>>

\* how long a round of the loop lasts when the clock is sampled every half timeout
PDRoundTimes == {PD_NEGOTIATION_TIMEOUT \div 2, PD_NEGOTIATION_TIMEOUT}

\* one round of run()'s loop once processCommands has found the queue empty, with the
\* clock followed while a negotiation is in progress: the round ends d ms later
PDLoopNegotiates ==
    /\ pdPc = "loop"
    /\ pdCommandQueue = <<>>
    /\ \E adcValue \in ADCReadings :
         PDCommit(PDPeriodicStatus(updateNegotiationState(PDState, pgPin, adcValue),
                                   now, adcValue))
    /\ lastStatusUpdate' = IF now - lastStatusUpdate >= PD_STATUS_UPDATE_INTERVAL
                           THEN now ELSE lastStatusUpdate
    /\ IF negotiationState \in {"NEGOTIATING", "AUTO_NEGOTIATING"}
       THEN \E d \in PDRoundTimes : now' = now + d
       ELSE now' = now
    /\ UNCHANGED <<commandQueue, pdCommandQueue, sendVars, traceVars, motorVars,
                   handledVars, pdPc, pgPin, pgToggles, pdLoops>>

\* the PD controller keeps driving the PG pin to the other level
PGPinToggles ==
    /\ pgPin' = ~pgPin
    /\ UNCHANGED <<queueVars, sendVars, traceVars, now, motorVars, handledVars,
                   pdPc, isInitialized, targetVoltage, negotiatedVoltage, powerGoodState,
                   lastPowerGoodState, powerGoodDebounceTime, negotiationState,
                   negotiationStartTime, isAutoNegotiating, autoNegotiationVoltageIndex,
                   autoNegotiationHighestVoltage, lastStatusUpdate, cfgPins,
                   cfgChangeTime, autoTried, pgAssertedSince, pgToggles, pdLoops>>

\* the PD controller drives the PG pin to the other level
PGPinChanges ==
    /\ pgToggles < MaxPGToggles
    /\ pgPin' = ~pgPin
    /\ pgToggles' = pgToggles + 1
    /\ UNCHANGED <<queueVars, sendVars, traceVars, now, motorVars, handledVars,
                   pdPc, isInitialized, targetVoltage, negotiatedVoltage, powerGoodState,
                   lastPowerGoodState, powerGoodDebounceTime, negotiationState,
                   negotiationStartTime, isAutoNegotiating, autoNegotiationVoltageIndex,
                   autoNegotiationHighestVoltage, lastStatusUpdate, cfgPins,
                   cfgChangeTime, autoTried, pgAssertedSince, pdLoops>>

\* PowerDeliveryTask::setTargetVoltage / autoNegotiateHighestVoltage / requestStatus
\* as the gateway calls them
PDCommands ==
    [command : {"SET_TARGET_VOLTAGE"}, value : TargetVoltageInputs]
      \cup [command : {"AUTO_NEGOTIATE_HIGHEST", "REQUEST_ALL_STATUS"}, value : {0}]

SendPowerDeliveryCommand(commands) ==
    \E c \in commands : sendPowerDeliveryCommand(PowerDeliveryCommandData(c.command, c.value))

GatewaySendsPowerDeliveryCommand ==
    /\ accepted["pd"] < MaxPDCmds
    /\ SendPowerDeliveryCommand(PDCommands)

GatewayQueuesPowerDeliveryCommand ==
    /\ accepted["pd"] < MaxTaskCmds
    /\ SendPowerDeliveryCommand([command : {"AUTO_NEGOTIATE_HIGHEST", "REQUEST_ALL_STATUS"},
                                 value : {0}])

(***************************************************************************)
(* Initial state                                                           *)
(***************************************************************************)
InitQueues ==
    /\ commandQueue = <<>>
    /\ pdCommandQueue = <<>>
    /\ statusUpdateQueue = <<>>
    /\ notificationQueue = <<>>
    /\ gwSend = NoSend
    /\ sendResult = [gateway |-> TRUE, estop |-> TRUE]
    /\ accepted = [q \in QueueNames |-> 0]
    /\ delivered = [q \in QueueNames |-> <<>>]
    /\ estopCalls = 0
    /\ handledByMotor = <<>>
    /\ handledByPD = <<>>
    /\ motorTrace = <<>>
    /\ now = 0

\* StepperController::StepperController and a begin() that succeeded on a namespace
\* holding the defaults and a stored direction: setSpeedInternal(1.0f, 0) has pushed
\* 533 steps/s to the stepper and applyStepperSpeed has recomputed the setpoint from
\* them, the acceleration is rpmToStepsPerSecond(MAX_SPEED_RPM) / 2, the driver
\* communicates, holds the default run current and is disabled, and the gateway has
\* fetched the initial status updates
InitMotorAt(boot) ==
    /\ motorEnabled = FALSE
    /\ clockwise \in BOOLEAN
    /\ isFirstStart = TRUE
    /\ startTime = 0
    /\ totalSteps = 0
    /\ driverEnabled = FALSE
    /\ stepperMove = "idle"
    /\ stepperPosition = 0
    /\ stepperConfig = [speedInHz |-> 533, acceleration |-> 8000]
    /\ preferences = [speed |-> RPM, clockwise |-> clockwise, current |-> 30,
                      acceleration |-> 0]
    /\ currentSpeedRPM = 1599
    /\ runCurrent = 30
    /\ currentAcceleration = 8000
    /\ speedVariationEnabled = FALSE
    /\ speedVariationStrength = 0
    /\ speedVariationPhase = 0
    /\ speedVariationStartPosition = 0
    /\ speedVariationK = 0
    /\ speedVariationK0 = ONE
    /\ tmc2209Initialized = TRUE
    /\ driverRunCurrent = 30
    /\ stallDetected = FALSE
    /\ lastStallTime = 0
    /\ stallCount = 0
    /\ driverCommunicating = TRUE
    /\ diagPin = FALSE
    /\ diagRose = FALSE
    /\ clockBase = boot
    /\ nextSpeedUpdate = U32Add(boot, U32(MOTOR_SPEED_UPDATE_INTERVAL))
    /\ nextPeriodicUpdate = U32Add(boot, U32(STATUS_UPDATE_INTERVAL))
    /\ lastStatusAt = 0
    /\ lastSpeedAt = 0
    /\ roundUpdates = [status |-> NotPerformed, speed |-> NotPerformed]

\* run() enters its loop when millis() is 0
InitMotor == InitMotorAt(U32(0))

\* PowerDeliveryTask::PowerDeliveryTask
InitPD ==
    /\ pdPc = "start"
    /\ isInitialized = FALSE
    /\ targetVoltage = PD_VOLTAGE_12V
    /\ negotiatedVoltage = 0
    /\ powerGoodState = FALSE
    /\ lastPowerGoodState = FALSE
    /\ powerGoodDebounceTime = 0
    /\ negotiationState = "IDLE"
    /\ negotiationStartTime = 0
    /\ isAutoNegotiating = FALSE
    /\ autoNegotiationVoltageIndex = 0
    /\ autoNegotiationHighestVoltage = 0
    /\ lastStatusUpdate = 0
    /\ cfgPins = <<0, 0, 0>>
    /\ cfgChangeTime = 0
    /\ autoTried = <<>>
    /\ pgAssertedSince = -1
    /\ pgPin = FALSE
    /\ pgToggles = 0
    /\ pdLoops = 0

(***************************************************************************)
(* The power task with the gateway: commands in, status out               *)
(***************************************************************************)
InitPDSpec == InitQueues /\ InitMotor /\ clockwise /\ InitPD /\ traced = {"command", "pd"}

\* the gateway's status loop keeps up with the task: it has emptied both status
\* queues before the task publishes again
GatewayKeepsUp == statusUpdateQueue = <<>> /\ notificationQueue = <<>>

\* BLEManager::processCommandResults and BLEManager::processStatusUpdates: the while
\* loops of the gateway take what the tasks reported until both queues are empty
processStatusUpdates ==
    /\ statusUpdateQueue # <<>> \/ notificationQueue # <<>>
    /\ statusUpdateQueue' = <<>>
    /\ notificationQueue' = <<>>
    /\ UNCHANGED <<commandQueue, pdCommandQueue, sendVars, traceVars, now, motorVars,
                   handledVars, pdVars>>

NextPD ==
    \/ GatewayKeepsUp /\ PDRunStart
    \/ GatewayKeepsUp /\ processCommands
    \/ GatewayKeepsUp /\ PDLoop
    \/ PGPinChanges
    \/ GatewaySendsPowerDeliveryCommand
    \/ processStatusUpdates

SpecPD == InitPDSpec /\ [][NextPD]_vars

(***************************************************************************)
(* The power task's loop with the point where it blocks                    *)
(***************************************************************************)
NextPDLoop ==
    \/ GatewayKeepsUp /\ PDRunStart
    \/ GatewayKeepsUp /\ processCommands
    \/ GatewayKeepsUp /\ PDLoopBlocks
    \/ PDDelayEnds
    \/ PGPinChanges
    \/ GatewaySendsPowerDeliveryCommand
    \/ processStatusUpdates

SpecPDLoop == InitPDSpec /\ [][NextPDLoop]_vars

(***************************************************************************)
(* The stepper task with the gateway                                       *)
(***************************************************************************)
InitMotorSpec == InitQueues /\ InitMotor /\ InitPD /\ traced = {"command", "pd"}

NextMotor ==
    \/ GatewayKeepsUp /\ MotorReceive
    \/ GatewaySendsStepperCommand
    \/ GatewayEmergencyStop
    \/ processStatusUpdates
    \/ MotorTimePasses
    \/ StepperSteps
    \/ StepperRampEnds

SpecMotor == InitMotorSpec /\ [][NextMotor]_vars

(***************************************************************************)
(* The stepper task's speed, acceleration and speed variation settings     *)
(***************************************************************************)
NextTuning ==
    \/ GatewayKeepsUp /\ MotorReceive
    \/ GatewayKeepsUp /\ MotorSpeedUpdate
    \/ GatewaySendsTuningCommand
    \/ processStatusUpdates

SpecTuning == InitMotorSpec /\ [][NextTuning]_vars

(***************************************************************************)
(* The stepper task's driver settings and status requests                  *)
(***************************************************************************)
NextDriver ==
    \/ GatewayKeepsUp /\ MotorReceive
    \/ GatewaySendsDriverCommand
    \/ GatewayKeepsUp /\ setStallGuardThreshold
    \/ DriverLinkChanges
    \/ processStatusUpdates

SpecDriver == InitMotorSpec /\ [][NextDriver]_vars

(***************************************************************************)
(* The timing of the stepper task's loop                                   *)
(***************************************************************************)
\* millis() in the first state: the loop is entered at boot, or a round has just
\* performed both updates 600 ms before millis() wraps (after 49.7 days)
ClockStarts == {U32(0), U32Sub(U32(0), U32(600))}

InitClockSpec ==
    /\ InitQueues
    /\ \E boot \in ClockStarts : InitMotorAt(boot)
    /\ clockwise
    /\ InitPD
    /\ traced = {"command", "pd"}

NextClock ==
    \/ GatewayKeepsUp /\ MotorRunRound
    \/ GatewaySendsClockCommand
    \/ processStatusUpdates

SpecClock == InitClockSpec /\ [][NextClock]_vars

(***************************************************************************)
(* The stepper task's periodic status update and stall check               *)
(***************************************************************************)
NextStall ==
    \/ GatewayKeepsUp /\ MotorReceive
    \/ GatewayKeepsUp /\ MotorPeriodicStatus
    \/ GatewaySendsStallCommand
    \/ DiagPinChanges
    \/ StepperSteps
    \/ StepperRampEnds
    \/ processStatusUpdates

SpecStall == InitMotorSpec /\ [][NextStall]_vars

(***************************************************************************)
(* The channels alone: producers and the consumer of one queue             *)
(***************************************************************************)
\* one queue at a time is exercised, and its items are stamped
InitChannels ==
    /\ InitQueues /\ InitMotor /\ clockwise /\ InitPD
    /\ traced \in {{"command"}, {"pd"}, {"status"}, {"notification"}}

\* a producer sends into the exercised queue
ProducerSends ==
    \/ /\ "command" \in traced /\ accepted["command"] < MaxAccepted
       /\ sendCommand(StepperCommandData("SET_SPEED", 1, 1))
    \/ /\ "command" \in traced /\ accepted["command"] < MaxAccepted
       /\ estopCalls < MaxEstops
       /\ emergencyStop
    \/ /\ "pd" \in traced /\ accepted["pd"] < MaxAccepted
       /\ sendPowerDeliveryCommand(PowerDeliveryCommandData("REQUEST_ALL_STATUS", 0))
    \/ /\ "status" \in traced /\ accepted["status"] < MaxAccepted
       /\ publishStatusUpdate("SPEED_CHANGED", 1)
    \/ /\ "notification" \in traced /\ accepted["notification"] < MaxAccepted
       /\ sendNotification("WARNING", <<"Stall detected">>)

NextChannels ==
    \/ ProducerSends
    \/ sendCommandUnblocked
    \/ sendCommandTimeout
    \/ sendPowerDeliveryCommandUnblocked
    \/ sendPowerDeliveryCommandTimeout
    \/ getCommand
    \/ getPowerDeliveryCommand
    \/ getStatusUpdate
    \/ getNotification

SpecChannels == InitChannels /\ [][NextChannels]_vars

(***************************************************************************)
(* The status channel: both of its queues with their producers and the     *)
(* consumer                                                                *)
(***************************************************************************)
InitStatus ==
    /\ InitQueues /\ InitMotor /\ clockwise /\ InitPD
    /\ traced = {"status", "notification"}

NextStatus ==
    \/ accepted["status"] < MaxAccepted /\ publishStatusUpdate("SPEED_CHANGED", 1)
    \/ accepted["notification"] < MaxAccepted /\ sendNotification("WARNING", <<"Stall detected">>)
    \/ getStatusUpdate
    \/ getNotification

SpecStatus == InitStatus /\ [][NextStatus]_vars

(***************************************************************************)
(* Both tasks with the gateway, under fair scheduling                      *)
(***************************************************************************)
InitTasks ==
    /\ InitQueues /\ InitMotor /\ clockwise /\ InitPD
    /\ traced = {"command", "pd"}

NextTasks ==
    \/ GatewayKeepsUp /\ MotorReceive
    \/ GatewayKeepsUp /\ PDRunStart
    \/ GatewayKeepsUp /\ processCommands
    \/ GatewayKeepsUp /\ PDLoopWithin(MaxTaskCmds) /\ now' \in {now, now + PD_NEGOTIATION_TIMEOUT}
    \/ GatewayQueuesStepperCommand
    \/ GatewayQueuesEmergencyStop
    \/ GatewayQueuesPowerDeliveryCommand
    \/ processStatusUpdates

\* FreeRTOS runs a ready task: while the stepper task has a command to take, or the
\* power task has yet to start or has a command to take, one of these steps is
\* eventually taken; and the gateway's status loop keeps turning
FairTasks ==
    /\ WF_vars(GatewayKeepsUp /\ (MotorReceive \/ PDRunStart \/ processCommands))
    /\ WF_vars(processStatusUpdates)

SpecTasks == InitTasks /\ [][NextTasks]_vars /\ FairTasks

(***************************************************************************)
(* Properties of the channels (SpecChannels) and of command handling       *)
(* (SpecTasks)                                                             *)
(***************************************************************************)
QueueOf(q) ==
    CASE q = "command" -> commandQueue
      [] q = "pd" -> pdCommandQueue
      [] q = "status" -> statusUpdateQueue
      [] q = "notification" -> notificationQueue
      [] OTHER -> <<>>
CapacityOf(q) ==
    CASE q = "command" -> COMMAND_QUEUE_SIZE
      [] q = "pd" -> PD_COMMAND_QUEUE_SIZE
      [] q = "status" -> STATUS_UPDATE_QUEUE_SIZE
      [] q = "notification" -> NOTIFICATION_QUEUE_SIZE
      [] OTHER -> 0

\* C1: in every queue the items received so far are the first accepted ones, in the
\* order of their acceptance, and the items still queued are the following ones, in
\* that order.
C1_FifoWithinQueue ==
    \A q \in traced :
        /\ \A i \in 1..Len(delivered[q]) : delivered[q][i] = i
        /\ Len(QueueOf(q)) = accepted[q] - Len(delivered[q])
        /\ \A i \in 1..Len(QueueOf(q)) : QueueOf(q)[i].seq = Len(delivered[q]) + i

\* the command queue has been filled and emptied past its capacity, an emergency stop
\* among the commands, and commands are still queued
C1_Witness ==
    /\ traced = {"command"}
    /\ Len(delivered["command"]) > COMMAND_QUEUE_SIZE
    /\ Len(commandQueue) > 1
    /\ estopCalls = 1 /\ sendResult.estop

\* C2: the command queues never hold more than their capacity; a send that found the
\* queue full can always time out; and when it ends with the queue still full it returns
\* failure and leaves the queues, the motor state and the power state as they were.
C2_FullQueueSendFails ==
    /\ [](/\ Len(commandQueue) <= COMMAND_QUEUE_SIZE
          /\ Len(pdCommandQueue) <= PD_COMMAND_QUEUE_SIZE
          /\ (gwSend.q = "command" /\ Len(commandQueue) = COMMAND_QUEUE_SIZE)
                => ENABLED sendCommandTimeout
          /\ (gwSend.q = "pd" /\ Len(pdCommandQueue) = PD_COMMAND_QUEUE_SIZE)
                => ENABLED sendPowerDeliveryCommandTimeout)
    /\ [][(gwSend # NoSend /\ gwSend' = NoSend
             /\ Len(QueueOf(gwSend.q)) >= CapacityOf(gwSend.q))
             => /\ sendResult'.gateway = FALSE
                /\ UNCHANGED <<queueVars, motorVars, pdVars>>
         ]_vars

\* a send into the full command queue has returned failure
C2_Witness ==
    /\ traced = {"command"}
    /\ Len(commandQueue) = COMMAND_QUEUE_SIZE
    /\ gwSend = NoSend
    /\ sendResult.gateway = FALSE

\* C4 as stated: every emergencyStop() call is accepted into the command queue and
\* returns success
C4_EmergencyStopAlwaysAccepted == sendResult.estop = TRUE

\* C3: the stepper task has handled exactly the commands accepted into the command
\* queue and no longer queued, each once and in order, and the power task the same for
\* the power command queue; and, under fair scheduling, each task again and again
\* reaches a state where it has handled every command accepted so far.
C3_HandledExactlyOnce ==
    /\ [](/\ \A i \in 1..Len(handledByMotor) : handledByMotor[i] = i
          /\ Len(handledByMotor) + Len(commandQueue) = accepted["command"]
          /\ \A i \in 1..Len(commandQueue) : commandQueue[i].seq = Len(handledByMotor) + i
          /\ \A i \in 1..Len(handledByPD) : handledByPD[i] = i
          /\ Len(handledByPD) + Len(pdCommandQueue) = accepted["pd"]
          /\ \A i \in 1..Len(pdCommandQueue) : pdCommandQueue[i].seq = Len(handledByPD) + i)
    /\ []<>(Len(handledByMotor) = accepted["command"])
    /\ []<>(Len(handledByPD) = accepted["pd"])

\* both tasks have handled every command the gateway sent them
C3_Witness ==
    /\ Len(handledByMotor) = MaxTaskCmds
    /\ Len(handledByPD) = MaxTaskCmds
    /\ commandQueue = <<>> /\ pdCommandQueue = <<>>

(***************************************************************************)
(* Properties of the power task (SpecPD)                                   *)
(***************************************************************************)
AllowedVoltages == {PD_VOLTAGE_5V, PD_VOLTAGE_9V, PD_VOLTAGE_12V, PD_VOLTAGE_15V, PD_VOLTAGE_20V}

\* the step is PDRunStart
IsPDRunStart == pdPc = "start" /\ pdPc' = "loop"
\* the step is processCommands handling the command at the front of pdCommandQueue
IsPDCommand ==
    /\ pdPc = "loop" /\ GatewayKeepsUp
    /\ pdCommandQueue # <<>> /\ pdCommandQueue' = Tail(pdCommandQueue)
\* the step is PDLoop: one tick of the negotiation state machine
IsPDTick ==
    /\ pdPc = "loop" /\ GatewayKeepsUp
    /\ pdCommandQueue = <<>> /\ pdCommandQueue' = <<>>
    /\ pgPin' = pgPin
\* the notification queue received an Error notification in this step
ErrorNotified ==
    /\ Len(notificationQueue') = Len(notificationQueue) + 1
    /\ notificationQueue'[Len(notificationQueue')].type = "ERROR"

\* C6 (as amended): a SetTargetVoltage(v) with an allowed v puts the task in
\* Negotiating with targetVoltage = v; at every tick in Negotiating, a debounced
\* power-good that is asserted gives Success with negotiatedVoltage = v, even when
\* 2000 ms have already elapsed; otherwise an elapsed time of at least 2000 ms gives
\* Failed with negotiatedVoltage = 0; otherwise the state stays Negotiating.
C6_SingleVoltageNegotiation ==
    [][/\ (IsPDCommand /\ Head(pdCommandQueue).command = "SET_TARGET_VOLTAGE"
             /\ Head(pdCommandQueue).value \in AllowedVoltages)
          => /\ negotiationState' = "NEGOTIATING"
             /\ targetVoltage' = Head(pdCommandQueue).value
             /\ negotiationStartTime' = now
             /\ negotiatedVoltage' = 0
       /\ (IsPDTick /\ negotiationState = "NEGOTIATING")
          => /\ targetVoltage' = targetVoltage
             /\ negotiationStartTime' = negotiationStartTime
             /\ powerGoodState'
                  => negotiationState' = "SUCCESS" /\ negotiatedVoltage' = targetVoltage
             /\ (~powerGoodState' /\ now - negotiationStartTime >= PD_NEGOTIATION_TIMEOUT)
                  => negotiationState' = "FAILED" /\ negotiatedVoltage' = 0
             /\ (~powerGoodState' /\ now - negotiationStartTime < PD_NEGOTIATION_TIMEOUT)
                  => negotiationState' = "NEGOTIATING" /\ negotiatedVoltage' = 0
      ]_vars

\* a single-voltage negotiation for 12 V has ended in Success
C6_Witness ==
    /\ negotiationState = "SUCCESS"
    /\ autoTried = <<>>
    /\ negotiatedVoltage = PD_VOLTAGE_12V
    /\ handledByPD # <<>>

\* C6 as stated: power-good asserted before 2000 ms gives Success, and at every tick
\* with 2000 ms or more elapsed the state becomes Failed with negotiatedVoltage = 0
C6_FailedOnceTimeoutElapsed ==
    [][(IsPDTick /\ negotiationState = "NEGOTIATING")
          => /\ (powerGoodState' /\ now - negotiationStartTime < PD_NEGOTIATION_TIMEOUT)
                  => negotiationState' = "SUCCESS" /\ negotiatedVoltage' = targetVoltage
             /\ (now - negotiationStartTime >= PD_NEGOTIATION_TIMEOUT)
                  => negotiationState' = "FAILED" /\ negotiatedVoltage' = 0
      ]_vars

\* C7: while AutoNegotiating the voltages configured so far are the first
\* autoNegotiationVoltageIndex + 1 entries of 20, 15, 12, 9, 5 and the configuration
\* lines select the last of them; the next voltage is taken only at a tick where
\* power-good is not asserted and 2000 ms have elapsed; the negotiation ends in Success
\* at the first tick where power-good is asserted, with negotiatedVoltage the voltage
\* configured then; it ends in Failed, with negotiatedVoltage = 0, only when the fifth
\* voltage has timed out.
C7_AutoNegotiationOrder ==
    /\ [](negotiationState = "AUTO_NEGOTIATING"
            => /\ autoNegotiationVoltageIndex \in 0..4
               /\ autoTried = SubSeq(autoNegotiationVoltages, 1, autoNegotiationVoltageIndex + 1)
               /\ cfgPins = CfgPinsFor(autoNegotiationVoltages[autoNegotiationVoltageIndex + 1]))
    /\ [][(IsPDTick /\ negotiationState = "AUTO_NEGOTIATING")
            => /\ powerGoodState'
                    => /\ negotiationState' = "SUCCESS"
                       /\ negotiatedVoltage' = autoTried[Len(autoTried)]
                       /\ targetVoltage' = negotiatedVoltage'
                       /\ autoTried' = autoTried /\ cfgPins' = cfgPins
               /\ negotiationState' = "SUCCESS" => powerGoodState'
               /\ negotiationState' = "FAILED"
                    => /\ autoTried = autoNegotiationVoltages
                       /\ now - negotiationStartTime >= PD_NEGOTIATION_TIMEOUT
                       /\ negotiatedVoltage' = 0
               /\ autoNegotiationVoltageIndex' # autoNegotiationVoltageIndex
                    => /\ autoNegotiationVoltageIndex' = autoNegotiationVoltageIndex + 1
                       /\ now - negotiationStartTime >= PD_NEGOTIATION_TIMEOUT
                       /\ ~powerGoodState'
               /\ (~powerGoodState' /\ now - negotiationStartTime < PD_NEGOTIATION_TIMEOUT)
                    => /\ negotiationState' = "AUTO_NEGOTIATING"
                       /\ autoTried' = autoTried
         ]_vars

\* 20 V and 15 V timed out and the auto-negotiation succeeded at 12 V
C7_Witness ==
    /\ negotiationState = "SUCCESS"
    /\ autoTried = <<PD_VOLTAGE_20V, PD_VOLTAGE_15V, PD_VOLTAGE_12V>>
    /\ negotiatedVoltage = PD_VOLTAGE_12V

\* C8 as stated: a SetTargetVoltage(v) with v outside {5, 9, 12, 15, 20} is answered
\* with an Error notification and leaves targetVoltage, negotiatedVoltage, the
\* negotiation state and the configuration lines unchanged
C8_OnlyAllowedVoltagesStart ==
    [][(IsPDCommand /\ Head(pdCommandQueue).command = "SET_TARGET_VOLTAGE"
          /\ Head(pdCommandQueue).value \notin AllowedVoltages)
          => /\ ErrorNotified
             /\ UNCHANGED <<targetVoltage, negotiatedVoltage, negotiationState, cfgPins>>
      ]_vars

C10_AllowedTransitions ==
    [][negotiationState' # negotiationState
          => \/ /\ IsPDRunStart
                /\ negotiationState = "IDLE" /\ negotiationState' = "AUTO_NEGOTIATING"
             \/ /\ IsPDCommand /\ Head(pdCommandQueue).command = "SET_TARGET_VOLTAGE"
                /\ negotiationState' = "NEGOTIATING"
             \/ /\ IsPDCommand /\ Head(pdCommandQueue).command = "AUTO_NEGOTIATE_HIGHEST"
                /\ negotiationState' = "AUTO_NEGOTIATING"
             \/ /\ IsPDTick
                /\ negotiationState \in {"NEGOTIATING", "AUTO_NEGOTIATING"}
                /\ negotiationState' \in {"SUCCESS", "FAILED"}
      ]_vars

\* the auto-negotiation succeeded at 20 V and a SetTargetVoltage then took the state
\* from Success to Negotiating
C10_Witness ==
    /\ negotiationState = "NEGOTIATING"
    /\ autoNegotiationHighestVoltage = PD_VOLTAGE_20V

\* C10 as stated: only the six listed transitions occur
C10_OnlyListedTransitions ==
    [][negotiationState' # negotiationState
          => <<negotiationState, negotiationState'>> \in
                 {<<"IDLE", "NEGOTIATING">>, <<"IDLE", "AUTO_NEGOTIATING">>,
                  <<"NEGOTIATING", "SUCCESS">>, <<"NEGOTIATING", "FAILED">>,
                  <<"AUTO_NEGOTIATING", "SUCCESS">>, <<"AUTO_NEGOTIATING", "FAILED">>}
      ]_vars

(***************************************************************************)
(* Properties of the stepper task (SpecMotor)                              *)
(***************************************************************************)
\* the step is MotorReceive handling a command of the given kind
IsMotorCommand(kind) ==
    /\ GatewayKeepsUp
    /\ commandQueue # <<>> /\ commandQueue' = Tail(commandQueue)
    /\ Head(commandQueue).command = kind

\* C5: from any state, handling EmergencyStop leaves the motor disabled, the driver
\* disabled and the stepper force-stopped; handling Enable, also after an
\* EmergencyStop, leaves the motor enabled, the driver enabled and the stepper running
\* in the selected direction; Enable captures startTime only when isFirstStart is
\* set, clears the flag, and nothing sets the flag again.
C5_EnableAfterEmergencyStop ==
    [][/\ IsMotorCommand("EMERGENCY_STOP")
            => ~motorEnabled' /\ ~driverEnabled' /\ stepperMove' = "force_stop"
       /\ IsMotorCommand("ENABLE")
            => /\ motorEnabled' /\ driverEnabled'
               /\ stepperMove' = IF clockwise THEN "forward" ELSE "backward"
               /\ startTime' = IF isFirstStart THEN now ELSE startTime
               /\ ~isFirstStart'
       /\ ~isFirstStart => ~isFirstStart'
      ]_vars

\* Enable, EmergencyStop and Enable again have been handled; the motor runs, and
\* startTime is still the time of the first Enable
C5_Witness ==
    /\ motorTrace = <<"ENABLE", "EMERGENCY_STOP", "ENABLE">>
    /\ Len(handledByMotor) = 3
    /\ motorEnabled /\ driverEnabled
    /\ stepperMove \in {"forward", "backward"}
    /\ startTime < now

(***************************************************************************)
(* Properties of the stepper task's settings (SpecTuning, SpecDriver)      *)
(***************************************************************************)
\* the stepper task is handling the command at the front of the command queue, a
\* command of kind `kind` with value `value`
IsMotorCommandWith(kind, value) == IsMotorCommand(kind) /\ xQueueFront(commandQueue).value = value

\* C11 as stated: in every reachable state, after any commands and speed updates, the
\* setpoint speed currentSpeedRPM, as recomputed from the steps per second pushed to the
\* stepper, lies in [MIN_SPEED_RPM, MAX_SPEED_RPM]
C11_SetpointInRange == currentSpeedRPM \in MIN_SPEED_RPM..MAX_SPEED_RPM

\* C12 as stated: whenever the speed variation strength is above 0, enabled or not, the
\* setpoint is at most the maximum allowed base speed:
\* setpoint * k0 / (1 - k) <= MAX_SPEED_RPM
C12_SetpointBelowMaxAllowedBase ==
    speedVariationStrength > 0
        => currentSpeedRPM * speedVariationK0 <= MAX_SPEED_RPM * (ONE - speedVariationK)

\* what the handler of the step published: the gateway had emptied both status queues
Published(type) == {u \in {statusUpdateQueue'[i] : i \in DOMAIN statusUpdateQueue'} : u.type = type}
Notified(type) == \E i \in DOMAIN notificationQueue' : notificationQueue'[i].type = type

\* C13 as stated: handling a SetSpeed request below MIN_SPEED_RPM or above
\* MAX_SPEED_RPM makes the setpoint the nearest bound, publishes that bound as the
\* speed and emits a Warning notification
C13_OutOfRangeSpeedClamped ==
    [][\A rpm \in SpeedInputs :
          IsMotorCommandWith("SET_SPEED", rpm) /\ (rpm < MIN_SPEED_RPM \/ rpm > MAX_SPEED_RPM)
              => /\ currentSpeedRPM' = constrain(rpm, MIN_SPEED_RPM, MAX_SPEED_RPM)
                 /\ \E u \in Published("SPEED_CHANGED") :
                        u.value = constrain(rpm, MIN_SPEED_RPM, MAX_SPEED_RPM)
                 /\ Notified("WARNING")
      ]_vars

\* C14 as stated: while speed variation is enabled with strength above 0, handling a
\* SetAcceleration request below the acceleration the modulation requires leaves the
\* current acceleration at or above that required acceleration
C14_AccelerationKeepsModulationFloor ==
    [][\A a \in AccelerationInputs :
          /\ IsMotorCommandWith("SET_ACCELERATION", a)
          /\ speedVariationEnabled /\ speedVariationStrength > 0
          /\ a < calculateRequiredAccelerationForVariableSpeed(MotorState)
          => currentAcceleration' >= calculateRequiredAccelerationForVariableSpeed(MotorState)
      ]_vars

\* C15: handling SetSpeed, SetSpeedVariationStrength or EnableSpeedVariation never
\* decreases the current acceleration, and no step other than the handling of
\* SetAcceleration decreases it
C15_AccelerationOnlyRaisedAutomatically ==
    [][/\ \A kind \in {"SET_SPEED", "SET_SPEED_VARIATION", "ENABLE_SPEED_VARIATION"} :
              IsMotorCommand(kind) => currentAcceleration' >= currentAcceleration
       /\ currentAcceleration' < currentAcceleration => IsMotorCommand("SET_ACCELERATION")
      ]_vars

\* no SetAcceleration has been handled, and enabling the speed variation has raised the
\* acceleration above the one begin() configured to what the modulation requires
C15_Witness ==
    /\ motorTrace # <<>>
    /\ motorTrace[Len(motorTrace)] = "ENABLE_SPEED_VARIATION"
    /\ \A i \in DOMAIN motorTrace : motorTrace[i] # "SET_ACCELERATION"
    /\ Len(handledByMotor) <= 3
    /\ speedVariationEnabled
    /\ currentAcceleration > rpmToStepsPerSecond(MAX_SPEED_RPM) \div 2
    /\ currentAcceleration = calculateRequiredAccelerationForVariableSpeed(MotorState)

\* C16: handling Disable, from any state, leaves the motor disabled, the stepper
\* stopping or stopped and the driver disabled, publishes enabled = false and emits no
\* Error notification; handling Disable right after a Disable changes no member and
\* nothing of the stepper or the driver
C16_DisableIdempotent ==
    [][IsMotorCommand("DISABLE")
          => /\ ~motorEnabled' /\ ~driverEnabled'
             /\ stepperMove' \notin {"forward", "backward"}
             /\ \E u \in Published("ENABLED_CHANGED") : u.value = FALSE
             /\ ~Notified("ERROR")
             /\ (motorTrace # <<>> /\ motorTrace[Len(motorTrace)] = "DISABLE")
                    => UNCHANGED motorVars
      ]_vars

\* Enable, Disable and Disable again have been handled: the motor is disabled, the
\* driver is disabled, the stepper is stopping or stopped, and no Error was reported
C16_Witness ==
    /\ motorTrace = <<"ENABLE", "DISABLE", "DISABLE">>
    /\ ~motorEnabled /\ ~driverEnabled
    /\ stepperMove \in {"ramp_stop", "idle"}
    /\ statusUpdateQueue # <<>>
    /\ notificationQueue = <<>>

\* C17 as stated: for every phase request p, of either sign and of any magnitude,
\* handling SetSpeedVariationPhase(p) stores and publishes p mod 2 pi, a phase in
\* [0, 2 pi)
C17_PhaseNormalized ==
    [][\A p \in PhaseInputs :
          IsMotorCommandWith("SET_SPEED_VARIATION_PHASE", p)
              => /\ speedVariationPhase' = p % TWO_PI
                 /\ speedVariationPhase' >= 0 /\ speedVariationPhase' < TWO_PI
                 /\ \E u \in Published("SPEED_VARIATION_PHASE_CHANGED") : u.value = p % TWO_PI
      ]_vars

\* C18 as stated: handling a command that applies a value to the driver, SetCurrent,
\* while the driver is not communicating emits an Error notification, changes no
\* member, and republishes the run current held before the command
C18_NoChangeWhenDriverSilent ==
    [][\A current \in CurrentInputs :
          IsMotorCommandWith("SET_CURRENT", current) /\ ~driverCommunicating
              => /\ Notified("ERROR")
                 /\ UNCHANGED <<motorEnabled, clockwise, isFirstStart, startTime, totalSteps,
                                settingVars>>
                 /\ Published("CURRENT_CHANGED") # {}
                 /\ \A u \in Published("CURRENT_CHANGED") : u.value = runCurrent
      ]_vars

\* C19: handling SetCurrent(pct) with pct below 10 or above 100 emits an Error
\* notification, leaves the run current of the task and of the driver unchanged and
\* publishes the previous run current; handling SetCurrent(pct) with 10 <= pct <= 100
\* while the driver communicates makes pct the run current of the task and of the driver
C19_CurrentRangeChecked ==
    [][\A pct \in CurrentInputs :
          IsMotorCommandWith("SET_CURRENT", pct)
              => IF pct < 10 \/ pct > 100
                 THEN /\ Notified("ERROR")
                      /\ runCurrent' = runCurrent
                      /\ driverRunCurrent' = driverRunCurrent
                      /\ Published("CURRENT_CHANGED") # {}
                      /\ \A u \in Published("CURRENT_CHANGED") : u.value = runCurrent
                 ELSE driverCommunicating
                          => runCurrent' = pct /\ driverRunCurrent' = pct
      ]_vars

\* SetCurrent(50) was accepted by the communicating driver; then an out-of-range
\* SetCurrent was rejected: the run current is still 50 and was republished with an Error
C19_Witness ==
    /\ motorTrace = <<"SET_CURRENT", "SET_CURRENT">>
    /\ runCurrent = 50 /\ driverRunCurrent = 50
    /\ tmc2209Initialized
    /\ \E i \in DOMAIN statusUpdateQueue :
           statusUpdateQueue[i].type = "CURRENT_CHANGED" /\ statusUpdateQueue[i].value = 50
    /\ \E i \in DOMAIN notificationQueue : notificationQueue[i].type = "ERROR"

\* C20 as stated: whatever the kind of the command the stepper task handles, handling
\* it publishes at least one status update or sends at least one notification
C20_EveryCommandReports ==
    [][GatewayKeepsUp /\ commandQueue # <<>> /\ commandQueue' = Tail(commandQueue)
          => statusUpdateQueue' # <<>> \/ notificationQueue' # <<>>
      ]_vars

\* the value of the last status update of the given type that the handler of the step
\* published
LastPublished(type) ==
    LET at == {i \in DOMAIN statusUpdateQueue' : statusUpdateQueue'[i].type = type}
    IN  statusUpdateQueue'[CHOOSE i \in at : \A j \in at : j <= i].value

\* C21 as stated: after the stepper task has handled a command, the last status update
\* it published of each kind (speed, direction, enabled, current, acceleration, speed
\* variation enabled, strength and phase) carries the value the task then holds
C21_PublishedValuesAreHeld ==
    [][GatewayKeepsUp /\ commandQueue # <<>> /\ commandQueue' = Tail(commandQueue)
          => /\ Published("SPEED_CHANGED") # {}
                    => LastPublished("SPEED_CHANGED") = currentSpeedRPM'
             /\ Published("DIRECTION_CHANGED") # {}
                    => LastPublished("DIRECTION_CHANGED") = clockwise'
             /\ Published("ENABLED_CHANGED") # {}
                    => LastPublished("ENABLED_CHANGED") = motorEnabled'
             /\ Published("CURRENT_CHANGED") # {}
                    => LastPublished("CURRENT_CHANGED") = runCurrent'
             /\ Published("ACCELERATION_CHANGED") # {}
                    => LastPublished("ACCELERATION_CHANGED") = currentAcceleration'
             /\ Published("SPEED_VARIATION_ENABLED_CHANGED") # {}
                    => LastPublished("SPEED_VARIATION_ENABLED_CHANGED") = speedVariationEnabled'
             /\ Published("SPEED_VARIATION_STRENGTH_CHANGED") # {}
                    => LastPublished("SPEED_VARIATION_STRENGTH_CHANGED") = speedVariationStrength'
             /\ Published("SPEED_VARIATION_PHASE_CHANGED") # {}
                    => LastPublished("SPEED_VARIATION_PHASE_CHANGED") = speedVariationPhase'
      ]_vars

(***************************************************************************)
(* Properties of the status channel (SpecChannels)                         *)
(***************************************************************************)
\* C22: the status queues never hold more than their capacity (30 and 10); publishing a
\* status update on the full status update queue, and sending a notification on the
\* full notification queue, can always be done at once, and it changes nothing: the new
\* item is dropped, the queued items stay as they are and in order, and the state of
\* the tasks is untouched
C22_FullStatusQueueDrops ==
    /\ [](/\ Len(statusUpdateQueue) <= STATUS_UPDATE_QUEUE_SIZE
          /\ Len(notificationQueue) <= NOTIFICATION_QUEUE_SIZE
          /\ Len(statusUpdateQueue) = STATUS_UPDATE_QUEUE_SIZE
                => ENABLED (publishStatusUpdate("SPEED_CHANGED", 1) /\ UNCHANGED vars)
          /\ Len(notificationQueue) = NOTIFICATION_QUEUE_SIZE
                => ENABLED (sendNotification("WARNING", <<"Stall detected">>)
                               /\ UNCHANGED vars))
    /\ [][/\ (Len(statusUpdateQueue) = STATUS_UPDATE_QUEUE_SIZE
                 /\ publishStatusUpdate("SPEED_CHANGED", 1)) => UNCHANGED vars
          /\ (Len(notificationQueue) = NOTIFICATION_QUEUE_SIZE
                 /\ sendNotification("WARNING", <<"Stall detected">>)) => UNCHANGED vars
         ]_vars

\* the status update queue is full of the first 30 updates published, none of them
\* taken yet, and the producer goes on publishing
C22_Witness ==
    /\ traced = {"status"}
    /\ Len(statusUpdateQueue) = STATUS_UPDATE_QUEUE_SIZE
    /\ \A i \in DOMAIN statusUpdateQueue : statusUpdateQueue[i].seq = i
    /\ accepted["status"] = STATUS_UPDATE_QUEUE_SIZE
    /\ delivered["status"] = <<>>
    /\ ENABLED publishStatusUpdate("SPEED_CHANGED", 1)

\* C23: a notification is accepted whenever the notification queue has a free slot,
\* however full the status update queue is; publishing a status update leaves the
\* notification queue as it is, and sending a notification leaves the status update
\* queue as it is
C23_NotificationQueueIndependent ==
    /\ [](xQueueHasSpace(notificationQueue, NOTIFICATION_QUEUE_SIZE)
            => ENABLED (/\ sendNotification("WARNING", <<"Stall detected">>)
                        /\ Len(notificationQueue') = Len(notificationQueue) + 1))
    /\ [][/\ statusUpdateQueue' # statusUpdateQueue => notificationQueue' = notificationQueue
          /\ notificationQueue' # notificationQueue => statusUpdateQueue' = statusUpdateQueue
         ]_vars

\* the status update queue is full and none of its updates has been taken, while
\* notifications have been accepted and taken and the notification queue has free slots
C23_Witness ==
    /\ Len(statusUpdateQueue) = STATUS_UPDATE_QUEUE_SIZE
    /\ delivered["status"] = <<>>
    /\ accepted["notification"] > NOTIFICATION_QUEUE_SIZE
    /\ notificationQueue # <<>>
    /\ xQueueHasSpace(notificationQueue, NOTIFICATION_QUEUE_SIZE)
    /\ notificationQueue[Len(notificationQueue)].seq = accepted["notification"]

\* C24 as stated, for the stepper task: the members of the stepper controller change
\* only in a step of the stepper task, which in SpecDriver is the handling of a command
C24_OnlyStepperTaskWrites ==
    [][<<motorEnabled, clockwise, isFirstStart, startTime, totalSteps, settingVars>>'
            # <<motorEnabled, clockwise, isFirstStart, startTime, totalSteps, settingVars>>
          => commandQueue # <<>> /\ commandQueue' = Tail(commandQueue)
      ]_vars

C26_OnlyReceiveBlocks == pdCommandQueue # <<>> => pdPc # "delay"

\* C27 as stated: whatever the state of the power negotiation, handling Enable leaves
\* the motor enabled, and when the negotiation is not complete with power-good it
\* issues a warning
C27_EnableWarnsWithoutPower ==
    [][IsMotorCommand("ENABLE")
          => /\ motorEnabled'
             /\ (negotiationState # "SUCCESS" \/ ~powerGoodState) => Notified("WARNING")
      ]_vars

(***************************************************************************)
(* Properties of the speed modulation (SpecTuning)                         *)
(***************************************************************************)
\* the speed calculateVariableSpeed returns when the position angle plus the phase is
\* sample i of AngleSamples equidistant angles of one revolution
VariableSpeedAt(i) ==
    calculateVariableSpeed([MotorState EXCEPT
                               !.stepperPosition = speedVariationStartPosition,
                               !.speedVariationPhase = (i * TWO_PI) \div AngleSamples])
RECURSIVE SumVariableSpeed(_)
SumVariableSpeed(n) == IF n = 0 THEN 0 ELSE VariableSpeedAt(n - 1) + SumVariableSpeed(n - 1)
AverageVariableSpeed == SumVariableSpeed(AngleSamples) \div AngleSamples

\* C28 as stated: for every strength and every setpoint the task holds, the average
\* over one revolution of the speed calculateVariableSpeed returns equals the setpoint,
\* to within 2 percent
C28_AverageSpeedIsSetpoint ==
    /\ 50 * (AverageVariableSpeed - currentSpeedRPM) <= currentSpeedRPM
    /\ 50 * (currentSpeedRPM - AverageVariableSpeed) <= currentSpeedRPM

\* the same for setpoints whose slowest and fastest modulated speed are within
\* [MIN_SPEED_RPM, MAX_SPEED_RPM]
AverageSpeedIsSetpointUnclamped ==
    (/\ currentSpeedRPM * speedVariationK0 >= MIN_SPEED_RPM * (ONE + speedVariationK)
     /\ currentSpeedRPM * speedVariationK0 <= MAX_SPEED_RPM * (ONE - speedVariationK))
        => C28_AverageSpeedIsSetpoint

\* C29 as stated: the setpoint speed changes only when SetSpeed is handled, or
\* downwards when SetSpeedVariationStrength or EnableSpeedVariation is handled; the
\* 50 ms speed update leaves it as it is
C29_SetpointChangedOnlyByCommands ==
    [][currentSpeedRPM' # currentSpeedRPM
          => \/ IsMotorCommand("SET_SPEED")
             \/ /\ IsMotorCommand("SET_SPEED_VARIATION") \/ IsMotorCommand("ENABLE_SPEED_VARIATION")
                /\ currentSpeedRPM' < currentSpeedRPM
      ]_vars

(***************************************************************************)
(* Properties of the direction (SpecMotor)                                 *)
(***************************************************************************)
\* C30 as stated: whenever the motor is enabled, the stepper was last started in the
\* selected direction: forward when clockwise is selected, backward otherwise
C30_RunsInSelectedDirection ==
    motorEnabled => stepperMove = (IF clockwise THEN "forward" ELSE "backward")

(***************************************************************************)
(* Properties of the modulation strength (SpecTuning)                      *)
(***************************************************************************)
\* the acceleration the modulation requires in the state the step leads to, were the
\* speed variation enabled there
RequiredAccelerationAfter ==
    calculateRequiredAccelerationForVariableSpeed(
        [MotorState EXCEPT !.speedVariationEnabled = TRUE,
                           !.currentSpeedRPM = currentSpeedRPM',
                           !.speedVariationStrength = speedVariationStrength',
                           !.speedVariationK = speedVariationK',
                           !.speedVariationK0 = speedVariationK0'])

\* C31 as stated: handling SetSpeedVariationStrength(s) with s in [0,1] stores s,
\* recomputes the shape parameters k and k0, lowers the setpoint to the maximum allowed
\* base speed when it exceeds it, and leaves the acceleration at or above the one the
\* new modulation depth requires, whether or not the speed variation is enabled; s
\* outside [0,1] emits an Error notification and leaves the strength unchanged
C31_StrengthRaisesAcceleration ==
    [][\A s \in StrengthInputs :
          IsMotorCommandWith("SET_SPEED_VARIATION", s)
              => IF s >= 0 /\ s <= ONE
                 THEN /\ speedVariationStrength' = s
                      /\ speedVariationK' = (s * 600) \div ONE
                      /\ speedVariationK0' = sqrtf(ONE * ONE - speedVariationK' * speedVariationK')
                      /\ currentSpeedRPM' <= currentSpeedRPM
                      /\ currentSpeedRPM' * speedVariationK0'
                             <= MAX_SPEED_RPM * (ONE - speedVariationK')
                      /\ currentAcceleration' >= currentAcceleration
                      /\ currentAcceleration' >= RequiredAccelerationAfter
                 ELSE /\ Notified("ERROR")
                      /\ speedVariationStrength' = speedVariationStrength
      ]_vars

\* the same with the acceleration raised only while the speed variation is enabled
StrengthRaisesAccelerationWhenEnabled ==
    [][\A s \in StrengthInputs :
          IsMotorCommandWith("SET_SPEED_VARIATION", s)
              => /\ speedVariationStrength' = s
                 /\ speedVariationK' = (s * 600) \div ONE
                 /\ speedVariationK0' = sqrtf(ONE * ONE - speedVariationK' * speedVariationK')
                 /\ currentSpeedRPM' <= currentSpeedRPM
                 /\ currentSpeedRPM' * speedVariationK0'
                        <= MAX_SPEED_RPM * (ONE - speedVariationK')
                 /\ currentAcceleration' >= currentAcceleration
                 /\ speedVariationEnabled => currentAcceleration' >= RequiredAccelerationAfter
      ]_vars

(***************************************************************************)
(* Properties of the stall check and the status batch (SpecStall)          *)
(***************************************************************************)
\* the stepper task runs its periodic status update, the gateway having emptied both
\* status queues
IsStallCheck == GatewayKeepsUp /\ MotorPeriodicStatus
\* the motor is enabled and the stepper is running
EnabledAndRunning == motorEnabled /\ stepperMove \in {"forward", "backward", "ramp_stop"}

\* what the stall check does to stallDetected and stallCount, and that nothing else but
\* the handling of ResetStallCount changes stallCount
StallCheckCountsRisingStall ==
    /\ IsStallCheck /\ EnabledAndRunning /\ diagPin /\ ~stallDetected
           => stallDetected' /\ stallCount' = stallCount + 1
    /\ IsStallCheck /\ EnabledAndRunning /\ ~diagPin /\ stallDetected => ~stallDetected'
    /\ IsStallCheck /\ ~EnabledAndRunning => ~stallDetected'
    /\ stallCount' # stallCount
           => \/ IsStallCheck /\ EnabledAndRunning /\ diagPin /\ ~stallDetected
              \/ IsMotorCommand("RESET_STALL_COUNT")

\* C32 as stated: at each stall check, with the motor enabled and running, the stall
\* indicator being high while stallDetected is false sets stallDetected, increments
\* stallCount by exactly one and emits a Warning notification; the indicator being low
\* while stallDetected is true clears it; with the motor not enabled and running
\* stallDetected is cleared; stallCount changes in no other case except ResetStallCount
C32_StallCheckWarns ==
    [][/\ StallCheckCountsRisingStall
       /\ IsStallCheck /\ EnabledAndRunning /\ diagPin /\ ~stallDetected => Notified("WARNING")
      ]_vars

\* the same without the Warning notification
StallCheckWithoutWarning == [][StallCheckCountsRisingStall]_vars

\* C34 as stated: handling ResetStallCount leaves stallCount 0 and stallDetected
\* cleared, and while ResetStallCount is the last command handled stallCount leaves 0
\* only at a stall check before which the stall indicator has shown a rising edge
\* since the previous check: a stall that was already counted and is still present is
\* not counted a second time
C34_ResetStallCountHolds ==
    [][/\ IsMotorCommand("RESET_STALL_COUNT") => stallCount' = 0 /\ ~stallDetected'
       /\ (/\ motorTrace # <<>>
           /\ motorTrace[Len(motorTrace)] = "RESET_STALL_COUNT"
           /\ stallCount = 0 /\ stallCount' # 0) => diagRose
      ]_vars

\* the reset itself: handling ResetStallCount zeroes the count, clears the flag and the
\* time of the last stall, and publishes the count 0
ResetStallCountZeroes ==
    [][IsMotorCommand("RESET_STALL_COUNT")
          => /\ stallCount' = 0 /\ ~stallDetected' /\ lastStallTime' = 0
             /\ \E u \in Published("STALL_COUNT_UPDATE") : u.value = 0
      ]_vars

\* the value the periodic status update reports for a status type in the current state
PeriodicValues(type) ==
    LET batch == stepperPublishPeriodicStatusUpdates(MotorState, diagPin, now).pub
    IN  {batch[i].value : i \in {j \in DOMAIN batch : batch[j].type = type}}
\* the status type and the value of every member of the motor state
MotorStateFields ==
    <<<<"SPEED_CHANGED", currentSpeedRPM>>, <<"DIRECTION_CHANGED", clockwise>>,
      <<"ENABLED_CHANGED", motorEnabled>>, <<"CURRENT_CHANGED", runCurrent>>,
      <<"ACCELERATION_CHANGED", currentAcceleration>>,
      <<"SPEED_VARIATION_ENABLED_CHANGED", speedVariationEnabled>>,
      <<"SPEED_VARIATION_STRENGTH_CHANGED", speedVariationStrength>>,
      <<"SPEED_VARIATION_PHASE_CHANGED", speedVariationPhase>>,
      <<"TMC2209_STATUS_UPDATE", tmc2209Initialized>>,
      <<"STALL_DETECTED_UPDATE", stallDetected>>, <<"STALL_COUNT_UPDATE", stallCount>>>>

\* the status updates of a type the handler of the step published: their places in the
\* queue and their values
PublishedAt(type) == {i \in DOMAIN statusUpdateQueue' : statusUpdateQueue'[i].type = type}
PublishedCount(type) == Cardinality(PublishedAt(type))
PublishedValues(type) == {statusUpdateQueue'[i].value : i \in PublishedAt(type)}

\* handling RequestAllStatus changes no member and publishes every member once with
\* its value, and the total revolutions and the runtime once
RequestAllStatusPublishesMembers ==
    IsMotorCommand("REQUEST_ALL_STATUS")
        => /\ UNCHANGED <<motorEnabled, clockwise, isFirstStart, startTime, totalSteps,
                          driverEnabled, stepperMove, stepperPosition, stepperConfig,
                          preferences, settingVars>>
           /\ \A i \in DOMAIN MotorStateFields :
                  /\ PublishedCount(MotorStateFields[i][1]) = 1
                  /\ PublishedValues(MotorStateFields[i][1]) = {MotorStateFields[i][2]}
           /\ PublishedCount("TOTAL_REVOLUTIONS_UPDATE") = 1
           /\ PublishedCount("RUNTIME_UPDATE") = 1

\* C33 as stated: handling RequestAllStatus leaves the motor state unchanged and
\* publishes one status update for every field of it, and the total revolutions and
\* the runtime it publishes are the values the periodic status update reports in the
\* same state
C33_RequestAllStatusMatchesPeriodic ==
    [][/\ RequestAllStatusPublishesMembers
       /\ IsMotorCommand("REQUEST_ALL_STATUS")
              => \A type \in {"TOTAL_REVOLUTIONS_UPDATE", "RUNTIME_UPDATE"} :
                     PublishedValues(type) \subseteq PeriodicValues(type)
      ]_vars

\* the same without the comparison with the periodic status update
RequestAllStatusRepublishesMembers == [][RequestAllStatusPublishesMembers]_vars

(***************************************************************************)
(* Properties of the driver enable (SpecMotor)                             *)
(***************************************************************************)
\* what enableInternal leaves when the stepper refuses the run call: the speed or the
\* acceleration of the stepper is taken as not set
EnableRefused(config) == enableInternal([MotorState EXCEPT !.stepperConfig = config], 1)

\* C38: in every reachable state the TMC2209 driver is enabled if and only if
\* motorEnabled is true; and from every reachable state an Enable whose run call does
\* not return MOVE_OK leaves motorEnabled false and the driver disabled, publishes
\* enabled = false and emits an Error notification
C38_DriverEnabledIffMotorEnabled ==
    /\ driverEnabled <=> motorEnabled
    /\ \A config \in {[stepperConfig EXCEPT !.speedInHz = 0],
                      [stepperConfig EXCEPT !.acceleration = 0]} :
           LET M == EnableRefused(config)
           IN  /\ ~M.motorEnabled /\ ~M.driverEnabled
               /\ M.stepperMove = stepperMove
               /\ Len(M.pub) = 1
               /\ M.pub[1].type = "ENABLED_CHANGED" /\ M.pub[1].value = FALSE
               /\ Len(M.notes) = 1 /\ M.notes[1].type = "ERROR"

\* Disable, then Enable have been handled: the motor and the driver are enabled again
C38_Witness ==
    /\ Len(motorTrace) >= 2
    /\ motorTrace[Len(motorTrace) - 1] \in {"DISABLE", "EMERGENCY_STOP"}
    /\ motorTrace[Len(motorTrace)] = "ENABLE"
    /\ motorEnabled /\ driverEnabled

(***************************************************************************)
(* Properties of the negotiated voltage (SpecPD)                           *)
(***************************************************************************)
\* C35 as stated: in every reachable state of the power task negotiatedVoltage is one
\* of 0, 5, 9, 12, 15, 20; it is 0 whenever the state is Idle, Negotiating,
\* AutoNegotiating or Failed; and in Success negotiatedVoltage = targetVoltage = the
\* voltage selected on the configuration lines
C35_NegotiatedVoltageIsSelected ==
    /\ negotiatedVoltage \in {0} \cup AllowedVoltages
    /\ negotiationState \in {"IDLE", "NEGOTIATING", "AUTO_NEGOTIATING", "FAILED"}
           => negotiatedVoltage = 0
    /\ negotiationState = "SUCCESS"
           => /\ negotiatedVoltage = targetVoltage
              /\ \E voltage \in AllowedVoltages :
                     voltage = negotiatedVoltage /\ cfgPins = CfgPinsFor(voltage)

\* the same while the target voltage is one of the five voltages of the sink
NegotiatedVoltageIsSelectedForAllowed ==
    targetVoltage \in AllowedVoltages => C35_NegotiatedVoltageIsSelected

\* C39: autoNegotiationVoltageIndex is within 0..4 whenever the state is
\* AutoNegotiating, so that every read of autoNegotiationVoltages at that index is in
\* bounds, for any interleaving of the commands with timeouts and power-good changes
C39_AutoNegotiationIndexInBounds ==
    negotiationState = "AUTO_NEGOTIATING"
        => /\ autoNegotiationVoltageIndex \in 0..4
           /\ autoNegotiationVoltageIndex + 1 \in DOMAIN autoNegotiationVoltages

\* an auto-negotiation restarted by a command has timed out on 20, 15, 12 and 9 V and
\* is trying the last voltage of the list
C39_Witness ==
    /\ negotiationState = "AUTO_NEGOTIATING"
    /\ autoNegotiationVoltageIndex = 4
    /\ Len(handledByPD) = 1

(***************************************************************************)
(* Properties of a negotiation that a command supersedes (SpecPD)          *)
(***************************************************************************)
\* a negotiation is in progress
Negotiating == negotiationState \in {"NEGOTIATING", "AUTO_NEGOTIATING"}
\* the voltage the negotiation in progress is about
VoltageInNegotiation ==
    IF negotiationState = "NEGOTIATING" THEN targetVoltage
    ELSE AutoVoltageAt(autoNegotiationVoltageIndex)

\* C36: a SetTargetVoltage or AutoNegotiateHighest handled while another negotiation
\* is in progress supersedes it: the new request's voltage is configured and the
\* timeout restarts from the command; afterwards every tick of a single-voltage
\* negotiation leaves the configuration lines and the auto-negotiation index alone and
\* ends only in Success at the new target or, 2000 ms after the command, in Failed;
\* every tick of an auto-negotiation steps, 2000 ms after the last step, to the next
\* voltage of its own list, and ends only in Success at the voltage it configured or
\* in Failed after the last voltage of the list
C36_CommandSupersedesNegotiation ==
    [][/\ (/\ IsPDCommand /\ Negotiating
           /\ Head(pdCommandQueue).command = "SET_TARGET_VOLTAGE"
           /\ Head(pdCommandQueue).value \in AllowedVoltages)
              => /\ negotiationState' = "NEGOTIATING"
                 /\ targetVoltage' = Head(pdCommandQueue).value
                 /\ cfgPins' = CfgPinsFor(Head(pdCommandQueue).value)
                 /\ negotiationStartTime' = now /\ cfgChangeTime' = now
                 /\ negotiatedVoltage' = 0 /\ ~powerGoodState'
       /\ (/\ IsPDCommand /\ Negotiating
           /\ Head(pdCommandQueue).command = "AUTO_NEGOTIATE_HIGHEST")
              => /\ negotiationState' = "AUTO_NEGOTIATING"
                 /\ autoNegotiationVoltageIndex' = 0
                 /\ cfgPins' = CfgPinsFor(PD_VOLTAGE_20V)
                 /\ negotiationStartTime' = now /\ cfgChangeTime' = now
                 /\ negotiatedVoltage' = 0 /\ ~powerGoodState'
       /\ (IsPDTick /\ negotiationState = "NEGOTIATING")
              => /\ negotiationState' \in {"NEGOTIATING", "SUCCESS", "FAILED"}
                 /\ UNCHANGED <<cfgPins, targetVoltage, autoNegotiationVoltageIndex>>
                 /\ negotiationState' = "SUCCESS" => negotiatedVoltage' = targetVoltage
                 /\ negotiationState' = "FAILED"
                        => now - negotiationStartTime >= PD_NEGOTIATION_TIMEOUT
       /\ (IsPDTick /\ negotiationState = "AUTO_NEGOTIATING")
              => /\ negotiationState' \in {"AUTO_NEGOTIATING", "SUCCESS", "FAILED"}
                 /\ negotiationState' = "SUCCESS"
                        => /\ negotiatedVoltage' = VoltageInNegotiation
                           /\ targetVoltage' = VoltageInNegotiation
                           /\ UNCHANGED cfgPins
                 /\ negotiationState' = "FAILED"
                        => /\ now - negotiationStartTime >= PD_NEGOTIATION_TIMEOUT
                           /\ autoNegotiationVoltageIndex = 4
                 /\ cfgPins' # cfgPins
                        => /\ now - negotiationStartTime >= PD_NEGOTIATION_TIMEOUT
                           /\ negotiationState' = "AUTO_NEGOTIATING"
                           /\ autoNegotiationVoltageIndex' = autoNegotiationVoltageIndex + 1
                           /\ negotiationStartTime' = now
       /\ (Negotiating' /\ targetVoltage' \in AllowedVoltages)
              => /\ cfgPins' = CfgPinsFor(VoltageInNegotiation')
                 /\ negotiationStartTime' = cfgChangeTime'
      ]_vars

\* SetTargetVoltage(12 V) was handled 2000 ms or more after the task started its
\* auto-negotiation, which had stepped down from 20 V by then; the single-voltage
\* negotiation that superseded it has succeeded at 12 V
C36_Witness ==
    /\ Len(handledByPD) = 1
    /\ negotiationState = "SUCCESS"
    /\ negotiatedVoltage = PD_VOLTAGE_12V /\ targetVoltage = PD_VOLTAGE_12V
    /\ cfgPins = CfgPinsFor(PD_VOLTAGE_12V)
    /\ autoNegotiationVoltageIndex = 1
    /\ cfgChangeTime >= PD_NEGOTIATION_TIMEOUT

(***************************************************************************)
(* The power task's loop under fair scheduling, and the termination of a   *)
(* negotiation (SpecPDLive)                                                *)
(***************************************************************************)
\* the gateway starts a negotiation, once the task has taken the previous command
GatewayStartsNegotiation ==
    /\ accepted["pd"] < MaxPDCmds
    /\ pdCommandQueue = <<>>
    /\ SendPowerDeliveryCommand(
           [command : {"SET_TARGET_VOLTAGE"}, value : {PD_VOLTAGE_12V}]
             \cup [command : {"AUTO_NEGOTIATE_HIGHEST"}, value : {0}])

NextPDLive ==
    \/ GatewayKeepsUp /\ PDRunStart
    \/ GatewayKeepsUp /\ processCommands
    \/ GatewayKeepsUp /\ PDLoopNegotiates
    \/ PGPinToggles
    \/ GatewayStartsNegotiation
    \/ processStatusUpdates

\* a round of the loop is due that lets the clock advance
PDTickDue == pdPc = "loop" /\ pdCommandQueue = <<>> /\ GatewayKeepsUp /\ Negotiating

\* FreeRTOS runs the power task whenever its vTaskDelay has expired: the task starts,
\* takes a queued command, and, while a negotiation is in progress, runs the round of
\* its loop that is due (weak fairness of PDLoopNegotiates, with PDTickDue for its
\* enabling condition); and the gateway's status loop keeps turning
FairPD ==
    /\ WF_vars(GatewayKeepsUp /\ (PDRunStart \/ processCommands))
    /\ []<>(~PDTickDue) \/ []<><<IsPDTick>>_vars
    /\ WF_vars(processStatusUpdates)

SpecPDLive == InitPDSpec /\ [][NextPDLive]_vars /\ FairPD

\* C37: under fair scheduling a negotiation in progress eventually ends in Success or
\* Failed, whatever the power-good input does; a tick of a single-voltage negotiation
\* taken 2000 ms or more after its start ends it; and a tick of an auto-negotiation
\* taken 2000 ms or more after its last step ends it or steps to the next of its five
\* voltages
C37_NegotiationTerminates ==
    /\ Negotiating ~> negotiationState \in {"SUCCESS", "FAILED"}
    /\ [][/\ (/\ IsPDTick /\ negotiationState = "NEGOTIATING"
              /\ now - negotiationStartTime >= PD_NEGOTIATION_TIMEOUT)
                 => negotiationState' \in {"SUCCESS", "FAILED"}
          /\ (/\ IsPDTick /\ negotiationState = "AUTO_NEGOTIATING"
              /\ now - negotiationStartTime >= PD_NEGOTIATION_TIMEOUT)
                 => \/ negotiationState' \in {"SUCCESS", "FAILED"}
                    \/ /\ negotiationState' = "AUTO_NEGOTIATING"
                       /\ autoNegotiationVoltageIndex' = autoNegotiationVoltageIndex + 1
                       /\ autoNegotiationVoltageIndex' <= 4
                       /\ negotiationStartTime' = now
         ]_vars

\* a single-voltage negotiation started by a command has timed out while the
\* power-good input was toggling, and the input is asserted at the end
C37_Witness ==
    /\ Len(handledByPD) = 1
    /\ negotiationState = "FAILED"
    /\ targetVoltage = PD_VOLTAGE_12V
    /\ pgPin

(***************************************************************************)
(* The periods of the stepper task's updates                               *)
(***************************************************************************)
\* C40: a round of the stepper task's loop performs the status update, and the speed
\* update, only when at least the update's interval has passed since the round that
\* performed it before, also when the next-due time wraps past 2^32
C40_UpdatesKeepInterval ==
    /\ roundUpdates.status # NotPerformed => roundUpdates.status >= STATUS_UPDATE_INTERVAL
    /\ roundUpdates.speed # NotPerformed => roundUpdates.speed >= MOTOR_SPEED_UPDATE_INTERVAL

\* a speed update whose next-due time has wrapped past 2^32 while millis() has not is
\* performed again in the same millisecond
WrappedDueTimeIsDueAtOnce ==
    /\ U32Less(nextSpeedUpdate, millis(now))
    /\ U32Sub(nextSpeedUpdate, millis(now)) = U32(MOTOR_SPEED_UPDATE_INTERVAL)
    /\ roundUpdates.speed = 0

\* no update is left out: after every round each update has been performed within its
\* interval and the longest time a round can take
UpdatesNeverOverdue ==
    LET longest == 100 + 20 + 1 + 1
    IN  /\ now - lastStatusAt <= STATUS_UPDATE_INTERVAL + longest
        /\ now - lastSpeedAt <= MOTOR_SPEED_UPDATE_INTERVAL + longest

\* while the next-due times have not wrapped, the updates keep their intervals up to the
\* advance of millis() between the reads of one round
UpdatesKeepIntervalBeforeWrap ==
    clockBase = U32(0) =>
        /\ roundUpdates.status # NotPerformed
               => roundUpdates.status >= STATUS_UPDATE_INTERVAL - 1
        /\ roundUpdates.speed # NotPerformed
               => roundUpdates.speed >= MOTOR_SPEED_UPDATE_INTERVAL - 2
====
